---- MODULE Spec2Model ----
(***************************************************************************)
(* Compilation jobs of src-tauri/src/commands/compiler.rs: the Nuitka job  *)
(* (run_nuitka_compilation) with its backup / inject / restore handling of *)
(* the entry file, the Node.js job (run_nodejs_compilation) and the        *)
(* installer job (run_installer_build), together with the progress and     *)
(* result events each of them emits.                                       *)
(*                                                                         *)
(* A file system is a function from the paths that exist to their content. *)
(* A path is a sequence of path tokens, a content a sequence of fragments  *)
(* (the generated blocks that are prepended, then the original text).      *)
(* Request fields and outcomes of the environment (process exit codes,     *)
(* I/O errors) that the code reads at one place are drawn where it reads   *)
(* them; request fields it reads at several places are kept in request.    *)
(***************************************************************************)
EXTENDS Integers, Sequences, FiniteSets, TLC

\* Number of jobs a behaviour starts, one after the other.
MaxJobs == 2
\* Number of lines read from one output stream of a child process.
MaxLines == 2
\* Number of file operations that fail in one behaviour.
MaxFaults == 1

\* Job slots: a slot holds the locals of one in-flight job.
Slots == {1, 2}

VARIABLES
    fs,          \* the project directory: path -> content, for the paths that exist
    job,         \* slot -> locals of the job that runs in it
    jobsStarted, \* number of jobs started so far
    faults,      \* number of file operations that failed so far
    cache,       \* end user's machine: license key -> the cache record stored for it
    demo_file,   \* end user's machine: the demo marker file (demo_started.json)
    now,         \* end user's machine: int(time.time()), in seconds
    run,         \* the last run of a produced executable on that machine
    revoked,     \* license key -> the server's last definitive answer was non-valid
    child,       \* a spawned packaging tool: what it still writes, its two pipes
    inv,         \* the job that spawned it: position, collected lines, events
    synth,       \* argument synthesis: its inputs and the argument vector built
    BACKEND_PROCESS, \* desktop app: the handle in the mutex, none or one sidecar
    mutex,       \* desktop app: the thread that holds the lock of BACKEND_PROCESS
    sidecars,    \* the sidecar processes spawned so far: id -> state
    port_file,   \* the readiness file backend.port: absent, or the port written
    thread,      \* desktop app: thread -> the backend_manager call it executes
    call         \* one call of a scanning function: its input and what it returned

jobVars == <<fs, job, jobsStarted, faults>>
protoVars == <<cache, demo_file, now, run, revoked>>
pipeVars == <<child, inv>>
\* What a step of a compilation job leaves alone.
sidecarVars == <<BACKEND_PROCESS, mutex, sidecars, port_file, thread>>
notJobVars == <<protoVars, pipeVars, synth, sidecarVars, call>>
vars == <<jobVars, protoVars, pipeVars, synth, sidecarVars, call>>

-----------------------------------------------------------------------------
(* The end user's machine, on which a produced executable starts *)

\* The license key literals a build can embed.
Keys == {"DEMO", "", "LK-1"}

NoRun == [variant |-> "none"]

\* No executable has run yet: no cache record, no demo marker.
MachineInit ==
    /\ cache = [k \in Keys |-> {}]
    /\ demo_file = {}
    /\ now = 0
    /\ run = NoRun
    /\ revoked = [k \in Keys |-> FALSE]

\* No packaging tool has been spawned.
NoChild ==
    /\ child = [todo |-> <<>>, status |-> "none", exit_code |-> 0,
                stdout |-> <<>>, stderr |-> <<>>, written |-> <<>>]
    /\ inv = [tool |-> "none", pc |-> "idle", reads |-> {}, progress |-> 0,
              stdout_lines |-> <<>>, stderr_lines |-> <<>>, events |-> <<>>,
              post_steps |-> FALSE, result |-> {}]

\* No argument vector is being built.
NoSynth == synth = [pc |-> "none"]

\* Threads of the desktop app that call into backend_manager.
Threads == {1, 2}
\* Number of sidecar processes spawned in one behaviour.
MaxSpawns == 2
SidecarIds == 1..MaxSpawns

IdleThread ==
    [pc |-> "idle", op |-> "none", attempts |-> 0, slept_ms |-> 0, child |-> 0,
     result |-> {}]

\* The desktop app has just started: no handle, no sidecar, no port file.
NoSidecar ==
    /\ BACKEND_PROCESS = {}
    /\ mutex = 0
    /\ sidecars = [i \in SidecarIds |-> "unborn"]
    /\ port_file = {}
    /\ thread = [t \in Threads |-> IdleThread]

\* No scanning function is being called.
NoCall == call = [pc |-> "none"]

-----------------------------------------------------------------------------
(* Paths and contents *)

P_nested == <<"src", "/", "main", ".py">>
P_flat   == <<"src", "_", "main", ".py">>
P_js     == <<"app", ".JS">>
P_gone   == <<"gone", ".py">>
EntryFiles == {P_nested, P_flat, P_js, P_gone}

RequirementsTxt == <<"requirements", ".txt">>
NoRequirements  == <<"missing", ".txt">>

WrapperFile == <<"_cv_license_wrapper", ".js">>
BootstrapFile(id) == <<"_cv_bootstrap_", id, ".js">>

\* The project directory before any job ran.
InitFs ==
    [p \in {P_nested, P_flat, P_js, RequirementsTxt} |->
        CASE p = P_nested -> <<"orig_nested">>
          [] p = P_flat   -> <<"orig_flat">>
          [] p = P_js     -> <<"orig_js">>
          [] OTHER        -> <<"flask==2.0">>]

Exists(f, p) == p \in DOMAIN f

WriteFile(f, p, c) == [q \in (DOMAIN f) \cup {p} |-> IF q = p THEN c ELSE f[q]]

RemoveFile(f, p) == [q \in (DOMAIN f) \ {p} |-> f[q]]

\* std::fs::write / std::fs::copy returning Err: the target could not be opened
\* (nothing changed) or was created/truncated and holds a proper prefix of c.
FailedWrite(f, p, c) ==
    {f} \cup {WriteFile(f, p, SubSeq(c, 1, k)) : k \in 0..(Len(c) - 1)}

\* Option<T>: the empty set is None, {x} is Some(x).
unwrap_or(opt, default) == IF opt = {} THEN default ELSE CHOOSE x \in opt : TRUE

Option(S) == {{}} \cup {{x} : x \in S}

to_lowercase(p) == [i \in DOMAIN p |-> IF p[i] = ".JS" THEN ".js" ELSE p[i]]

ends_with(p, ext) == Len(p) > 0 /\ p[Len(p)] = ext

is_nodejs(entry_file) ==
    LET entry_file_lower == to_lowercase(entry_file)
    IN  \/ ends_with(entry_file_lower, ".js")
        \/ ends_with(entry_file_lower, ".ts")
        \/ ends_with(entry_file_lower, ".mjs")
        \/ ends_with(entry_file_lower, ".cjs")

\* format!("_backup_{}", entry_file.replace("/", "_").replace("\\", "_"))
backup_filename(entry_file) ==
    <<"_backup_">> \o
    [i \in 1..Len(entry_file) |->
        IF entry_file[i] \in {"/", "\\"} THEN "_" ELSE entry_file[i]]

-----------------------------------------------------------------------------
(* Instrumentation of the entry file *)

InjectIo == {"ok", "read_fail", "mkdir_fail", "backup_fail", "write_fail"}

\* The outcomes a file operation can still have, and the fault count after it.
MayFail(ios) == IF faults < MaxFaults THEN ios ELSE {"ok"}
Charge(io) == IF io = "ok" THEN faults ELSE faults + 1

\* An instrumentation whose demo fragment does not depend on the duration.
wrapped_content_any_duration(original_content, demo_mode, demo_duration_minutes) ==
    <<"LICENSE WRAPPER">>
    \o (IF demo_mode THEN <<"DEMO MODE">> ELSE <<>>)
    \o original_content

wrapped_content(original_content, demo_mode, demo_duration_minutes) ==
    <<"LICENSE WRAPPER">>
    \o (IF demo_mode /\ demo_duration_minutes > 0 THEN <<"DEMO MODE">> ELSE <<>>)
    \o original_content

inject_license_wrapper_keepBackup(f, entry_file, demo_mode, demo_duration_minutes, io) ==
    IF ~Exists(f, entry_file) \/ io # "ok"
    THEN {[fs |-> f, ok |-> FALSE]}
    ELSE LET backup_path == backup_filename(entry_file)
             backed == IF Exists(f, backup_path) THEN f
                       ELSE WriteFile(f, backup_path, f[entry_file])
         IN  {[fs |-> WriteFile(backed, entry_file,
                         wrapped_content(f[entry_file], demo_mode, demo_duration_minutes)),
               ok |-> TRUE]}

\* The outcomes of inject_license_wrapper: the file system it leaves and
\* whether it returned Ok.
inject_license_wrapper(f, entry_file, demo_mode, demo_duration_minutes, io) ==
    IF ~Exists(f, entry_file) \/ io \in {"read_fail", "mkdir_fail"}
    THEN {[fs |-> f, ok |-> FALSE]}
    ELSE LET original_content == f[entry_file]
             backup_path == backup_filename(entry_file)
             wrapped == wrapped_content(original_content, demo_mode, demo_duration_minutes)
             backed == WriteFile(f, backup_path, original_content)
         IN  CASE io = "backup_fail" ->
                    {[fs |-> g, ok |-> FALSE] :
                        g \in FailedWrite(f, backup_path, original_content)}
               [] io = "write_fail" ->
                    {[fs |-> g, ok |-> FALSE] :
                        g \in FailedWrite(backed, entry_file, wrapped)}
               [] OTHER ->
                    {[fs |-> WriteFile(backed, entry_file, wrapped), ok |-> TRUE]}

PrependIo == {"ok", "read_fail", "write_fail"}

\* inject_env_values with a non-empty map.
inject_env_values(f, entry_file, io) ==
    IF ~Exists(f, entry_file) \/ io = "read_fail"
    THEN {[fs |-> f, ok |-> FALSE]}
    ELSE LET new_content == <<"BAKED ENVIRONMENT VARIABLES">> \o f[entry_file]
         IN  IF io = "write_fail"
             THEN {[fs |-> g, ok |-> FALSE] : g \in FailedWrite(f, entry_file, new_content)}
             ELSE {[fs |-> WriteFile(f, entry_file, new_content), ok |-> TRUE]}

contains(content, marker) == \E i \in DOMAIN content : content[i] = marker

\* An installer injection that does not look for the marker.
inject_first_run_deps_installer_always(f, entry_file, io) ==
    IF ~Exists(f, entry_file) \/ io = "read_fail"
    THEN {[fs |-> f, ok |-> FALSE]}
    ELSE LET new_content == <<"AUTO-DEPENDENCY INSTALLER">> \o f[entry_file]
         IN  IF io = "write_fail"
             THEN {[fs |-> g, ok |-> FALSE] : g \in FailedWrite(f, entry_file, new_content)}
             ELSE {[fs |-> WriteFile(f, entry_file, new_content), ok |-> TRUE]}

inject_first_run_deps_installer(f, entry_file, io) ==
    IF ~Exists(f, entry_file) \/ io = "read_fail"
    THEN {[fs |-> f, ok |-> FALSE]}
    ELSE IF contains(f[entry_file], "AUTO-DEPENDENCY INSTALLER")
    THEN {[fs |-> f, ok |-> TRUE]}
    ELSE LET new_content == <<"AUTO-DEPENDENCY INSTALLER">> \o f[entry_file]
         IN  IF io = "write_fail"
             THEN {[fs |-> g, ok |-> FALSE] : g \in FailedWrite(f, entry_file, new_content)}
             ELSE {[fs |-> WriteFile(f, entry_file, new_content), ok |-> TRUE]}

\* The file systems restore_original_file can leave: both errors are only logged.
restore_original_file(f, entry_file, copy_ok, remove_ok) ==
    LET backup_path == backup_filename(entry_file)
    IN  IF Exists(f, backup_path)
        THEN LET copied == IF copy_ok THEN {WriteFile(f, entry_file, f[backup_path])}
                                      ELSE FailedWrite(f, entry_file, f[backup_path])
             IN  {IF remove_ok THEN RemoveFile(g, backup_path) ELSE g : g \in copied}
        ELSE {f}

\* The outcomes <<copy_ok, remove_ok>> of the two file operations of a restore;
\* without a backup neither is attempted.
RestoreIo(f, entry_file, n) ==
    IF Exists(f, backup_filename(entry_file)) /\ n < MaxFaults
    THEN BOOLEAN \X BOOLEAN
    ELSE {<<TRUE, TRUE>>}
ChargeRestore(io, n) == IF io = <<TRUE, TRUE>> THEN n ELSE n + 1

-----------------------------------------------------------------------------
(* Events *)

Success == [type |-> "result", success |-> TRUE,
            output_path |-> TRUE, error_message |-> FALSE]
Failure == [type |-> "result", success |-> FALSE,
            output_path |-> FALSE, error_message |-> TRUE]
Restored(copy_ok, remove_ok) ==
    [type |-> "restore", copy_ok |-> copy_ok, remove_ok |-> remove_ok]

IsResult(e) == e.type = "result"
IsRestore(e) == e.type = "restore"
Results(log) == SelectSeq(log, IsResult)
Restores(log) == SelectSeq(log, IsRestore)

\* window.emit("compilation-progress", ...): the job keeps the last value
\* emitted, whether the values so far never decreased and stayed within
\* 0..100, and whether a progress event followed a result event.
EmitProgress(j, p) ==
    [j EXCEPT !.last = p,
              !.monotonic = @ /\ j.last <= p,
              !.in_range = @ /\ p \in 0..100,
              !.after_result = @ \/ Len(Results(j.log)) > 0]

EmitResult_dropped(j, r) == j

\* window.emit("compilation-result", ...)
EmitResult(j, r) == [j EXCEPT !.log = Append(@, r)]

NoteRestore(j, copy_ok, remove_ok) ==
    [j EXCEPT !.log = Append(@, Restored(copy_ok, remove_ok))]

-----------------------------------------------------------------------------
(* Jobs *)

Requests ==
    [entry_file : EntryFiles,
     bundle_requirements : BOOLEAN,
     requirements_path : {RequirementsTxt, NoRequirements}]

NoRequest ==
    [entry_file |-> <<>>, bundle_requirements |-> FALSE, requirements_path |-> <<>>]

IdleJob ==
    [pc |-> "idle", kind |-> "none", request |-> NoRequest, fs0 |-> InitFs,
     injected |-> FALSE, frontend_dist_path |-> {},
     bootstrap_filename |-> <<>>,
     progress |-> 0, lines |-> 0,
     last |-> -1, monotonic |-> TRUE, in_range |-> TRUE,
     after_result |-> FALSE, log |-> <<>>]

Init ==
    /\ fs = InitFs
    /\ job = [s \in Slots |-> IdleJob]
    /\ jobsStarted = 0
    /\ faults = 0
    /\ MachineInit
    /\ NoChild
    /\ NoSynth
    /\ NoSidecar
    /\ NoCall

\* Callers serialize jobs: a job starts when no other is in flight, in the
\* lowest slot.
CanStart(s) ==
    /\ jobsStarted < MaxJobs
    /\ \A t \in Slots : job[t].pc = "idle"
    /\ \A t \in Slots : t >= s

\* The job function returns: its locals are dropped, what it emitted stays.
Finish(j) ==
    [j EXCEPT !.pc = "done", !.frontend_dist_path = {},
              !.bootstrap_filename = <<>>, !.progress = 0, !.lines = 0]

-----------------------------------------------------------------------------
(* run_nuitka_compilation *)

LicenseKeys == Option({"", "LK-1"})

\* Start event, project path check, language check.
Nuitka_Start(s) ==
    /\ CanStart(s)
    /\ \E req \in Requests, project_exists \in BOOLEAN :
        LET j0 == [IdleJob EXCEPT !.kind = "nuitka", !.request = req, !.fs0 = fs]
            j1 == EmitProgress(j0, 0)
        IN  job' = [job EXCEPT ![s] =
                IF ~project_exists \/ is_nodejs(req.entry_file)
                THEN Finish(EmitResult(j1, Failure))
                ELSE [j1 EXCEPT !.pc = "n_inject"]]
    /\ jobsStarted' = jobsStarted + 1
    /\ UNCHANGED <<fs, faults>>
    /\ UNCHANGED notJobVars

\* Inject license wrapper if license key is provided.
Nuitka_Inject(s) ==
    /\ job[s].pc = "n_inject"
    /\ \E key \in LicenseKeys :
        LET j == job[s]
            license_key == unwrap_or(key, "DEMO")
        IN  IF license_key = ""
            THEN /\ job' = [job EXCEPT ![s].pc = "n_install"]
                 /\ UNCHANGED <<fs, faults>>
            ELSE \E dm \in Option(BOOLEAN), dd \in Option({0, 30}),
                    io \in MayFail(InjectIo) :
                 \E r \in inject_license_wrapper(fs, j.request.entry_file,
                            unwrap_or(dm, FALSE), unwrap_or(dd, 60), io) :
                    /\ fs' = r.fs
                    /\ faults' = Charge(io)
                    /\ job' = [job EXCEPT ![s] =
                          IF r.ok
                          THEN [EmitProgress(j, 3) EXCEPT !.injected = TRUE,
                                                          !.pc = "n_install"]
                          ELSE Finish(EmitResult(EmitProgress(j, 3), Failure))]
    /\ UNCHANGED jobsStarted
    /\ UNCHANGED notJobVars

PipOutcomes == {"ok", "spawn_err", "nonzero"}

\* The events of install_requirements and whether it returned Ok.
install_requirements(j, outcome) ==
    IF ~Exists(fs, j.request.requirements_path)
    THEN [job |-> j, ok |-> FALSE]
    ELSE IF outcome # "ok"
    THEN [job |-> EmitProgress(j, 5), ok |-> FALSE]
    ELSE [job |-> EmitProgress(EmitProgress(j, 5), 10), ok |-> TRUE]

\* Install dependencies if requested.
Nuitka_Install(s) ==
    /\ job[s].pc = "n_install"
    /\ \E install \in Option(BOOLEAN) :
        LET j == job[s]
        IN  IF unwrap_or(install, FALSE) /\ Exists(fs, j.request.requirements_path)
            THEN \E outcome \in PipOutcomes :
                 LET r == install_requirements(j, outcome)
                 IN  job' = [job EXCEPT ![s] =
                        IF r.ok THEN [r.job EXCEPT !.pc = "n_env"]
                                ELSE Finish(EmitResult(r.job, Failure))]
            ELSE job' = [job EXCEPT ![s].pc = "n_env"]
    /\ UNCHANGED <<fs, jobsStarted, faults>>
    /\ UNCHANGED notJobVars

\* The error path of the steps below: restore_original_file, then the failure
\* result, then return Err.
Nuitka_RestoreAndFail(s) ==
    /\ job[s].pc = "n_restore"
    /\ \E io \in RestoreIo(fs, job[s].request.entry_file, faults) :
        \E g \in restore_original_file(fs, job[s].request.entry_file, io[1], io[2]) :
            /\ fs' = g
            /\ faults' = ChargeRestore(io, faults)
            /\ job' = [job EXCEPT ![s] =
                  Finish(EmitResult(NoteRestore(job[s], io[1], io[2]), Failure))]
    /\ UNCHANGED jobsStarted
    /\ UNCHANGED notJobVars

\* Inject environment values if provided.
Nuitka_Env(s) ==
    /\ job[s].pc = "n_env"
    /\ \E env_values \in Option({"empty", "nonempty"}) :
        LET j == job[s]
        IN  IF env_values = {"nonempty"}
            THEN \E io \in MayFail(PrependIo) :
                 \E r \in inject_env_values(fs, j.request.entry_file, io) :
                    /\ fs' = r.fs
                    /\ faults' = Charge(io)
                    /\ job' = [job EXCEPT ![s] =
                          [EmitProgress(j, 4) EXCEPT
                              !.pc = IF r.ok THEN "n_deps" ELSE "n_restore"]]
            ELSE /\ job' = [job EXCEPT ![s].pc = "n_deps"]
                 /\ UNCHANGED <<fs, faults>>
    /\ UNCHANGED jobsStarted
    /\ UNCHANGED notJobVars

\* Bundle requirements.txt with first-run installer if requested.
Nuitka_Deps(s) ==
    /\ job[s].pc = "n_deps"
    /\ LET j == job[s]
        IN  IF j.request.bundle_requirements /\ Exists(fs, j.request.requirements_path)
            THEN \E io \in MayFail(PrependIo) :
                 \E r \in inject_first_run_deps_installer(fs, j.request.entry_file, io) :
                    /\ fs' = r.fs
                    /\ faults' = Charge(io)
                    /\ job' = [job EXCEPT ![s] =
                          [EmitProgress(j, 5) EXCEPT
                              !.pc = IF r.ok THEN "n_frontend" ELSE "n_restore"]]
            ELSE /\ job' = [job EXCEPT ![s].pc = "n_frontend"]
                 /\ UNCHANGED <<fs, faults>>
    /\ UNCHANGED jobsStarted
    /\ UNCHANGED notJobVars

BuildOutcomes ==
    {"install_spawn_err", "install_nonzero", "build_spawn_err", "build_nonzero",
     "dist", "build_dir", "no_output"}

\* The events of build_frontend_project and whether it returned Ok.
build_frontend_project(j, outcome) ==
    LET j1 == EmitProgress(j, 15)
        j2 == EmitProgress(j1, 20)
    IN  CASE outcome \in {"install_spawn_err", "install_nonzero"} ->
                [job |-> j1, ok |-> FALSE]
          [] outcome \in {"build_spawn_err", "build_nonzero", "no_output"} ->
                [job |-> j2, ok |-> FALSE]
          [] outcome = "build_dir" ->
                [job |-> j2, ok |-> TRUE]
          [] OTHER ->
                [job |-> EmitProgress(j2, 25), ok |-> TRUE]

\* Build frontend if requested: an explicit frontend_dir, or auto-detection.
Nuitka_Frontend(s) ==
    /\ job[s].pc = "n_frontend"
    /\ \E build_frontend \in Option(BOOLEAN) :
        LET j == job[s]
            skip == [j EXCEPT !.pc = "n_args"]
        IN  IF ~unwrap_or(build_frontend, FALSE)
            THEN job' = [job EXCEPT ![s] = skip]
            ELSE \E frontend_dir \in Option({"exists", "missing"}),
                    outcome \in BuildOutcomes :
                 LET r == build_frontend_project(j, outcome)
                     built == [r.job EXCEPT !.frontend_dist_path = {"dist"},
                                            !.pc = "n_args"]
                 IN  IF frontend_dir = {"missing"}
                     THEN job' = [job EXCEPT ![s] = skip]
                     ELSE IF frontend_dir = {"exists"}
                     THEN job' = [job EXCEPT ![s] =
                             IF r.ok THEN built ELSE [r.job EXCEPT !.pc = "n_restore"]]
                     ELSE \E detected \in BOOLEAN :
                          job' = [job EXCEPT ![s] =
                             IF ~detected THEN skip
                             ELSE IF r.ok THEN built
                             ELSE [EmitProgress(r.job, 25) EXCEPT !.pc = "n_args"]]
    /\ UNCHANGED <<fs, jobsStarted, faults>>
    /\ UNCHANGED notJobVars

EmitIf(j, cond, p) == IF cond THEN EmitProgress(j, p) ELSE j

\* Build Nuitka command arguments: the progress events of the preparation.
\* (With a frontend built, both values of split_frontend emit progress 8.)
Nuitka_Args(s) ==
    /\ job[s].pc = "n_args"
    /\ \E packages_nonempty \in BOOLEAN, exclude_nonempty \in BOOLEAN,
          data_dirs_nonempty \in BOOLEAN :
        LET j == job[s]
            j1 == EmitIf(j, packages_nonempty, 6)
            j2 == EmitIf(j1, exclude_nonempty, 6)
            j3 == EmitIf(j2, data_dirs_nonempty, 7)
            j4 == EmitIf(j3, j.request.bundle_requirements
                             /\ Exists(fs, j.request.requirements_path), 8)
            j5 == EmitIf(j4, j.frontend_dist_path # {}, 8)
            j6 == EmitProgress(j5, 5)
        IN  job' = [job EXCEPT ![s] = [j6 EXCEPT !.pc = "n_spawn"]]
    /\ UNCHANGED <<fs, jobsStarted, faults>>
    /\ UNCHANGED notJobVars

\* Command::new("python") ... .spawn().map_err(...)?
Nuitka_Spawn(s) ==
    /\ job[s].pc = "n_spawn"
    /\ \E spawn_ok \in BOOLEAN :
        job' = [job EXCEPT ![s] =
            IF spawn_ok
            THEN [job[s] EXCEPT !.progress = 10, !.lines = 0, !.pc = "n_stream"]
            ELSE Finish(EmitResult(job[s], Failure))]
    /\ UNCHANGED <<fs, jobsStarted, faults>>
    /\ UNCHANGED notJobVars

LineKinds == {"Nuitka:INFO:", "Nuitka:WARNING:", "Nuitka:ERROR:", "other"}

min(a, b) == IF a < b THEN a ELSE b

classify(progress, line_text) ==
    CASE line_text = "Nuitka:INFO:"    -> min(progress + 2, 90)
      [] line_text = "Nuitka:WARNING:" -> progress
      [] line_text = "Nuitka:ERROR:"   -> progress
      [] OTHER                         -> min(progress + 1, 90)

\* One line of the child's stderr.
Nuitka_Line(s) ==
    /\ job[s].pc = "n_stream"
    /\ job[s].lines < MaxLines
    /\ \E line_text \in LineKinds :
        LET progress == classify(job[s].progress, line_text)
        IN  job' = [job EXCEPT ![s] =
                [EmitProgress(job[s], progress) EXCEPT !.progress = progress,
                                                       !.lines = @ + 1]]
    /\ UNCHANGED <<fs, jobsStarted, faults>>
    /\ UNCHANGED notJobVars

\* End of stderr (or a read error): the loop ends, its counter goes out of scope.
Nuitka_Eof(s) ==
    /\ job[s].pc = "n_stream"
    /\ job' = [job EXCEPT ![s] = [@ EXCEPT !.pc = "n_wait", !.progress = 0, !.lines = 0]]
    /\ UNCHANGED <<fs, jobsStarted, faults>>
    /\ UNCHANGED notJobVars

WaitOutcomes == {"success", "nonzero", "wait_err"}

\* The events of the success branch: frontend copy, launcher, completion.
\* (copy_dir_recursive emits 97 whether it succeeds or fails.)
finalize(j, split_frontend_mode, create_launcher, launcher_ok) ==
    LET split == split_frontend_mode /\ j.frontend_dist_path # {}
        j1 == IF split THEN EmitProgress(EmitProgress(j, 95), 97) ELSE j
        j2 == EmitIf(j1, (create_launcher \/ j.frontend_dist_path # {}) /\ launcher_ok, 98)
    IN  EmitResult(EmitProgress(j2, 100), Success)

\* child.wait(), the result event, then restore_original_file.
Nuitka_Wait(s) ==
    /\ job[s].pc = "n_wait"
    /\ \E outcome \in WaitOutcomes, io \in RestoreIo(fs, job[s].request.entry_file, faults) :
        \E split_frontend \in IF outcome = "success" THEN Option(BOOLEAN) ELSE {{}},
           create_launcher \in IF outcome = "success" THEN Option(BOOLEAN) ELSE {{}},
           launcher_ok \in IF outcome = "success" THEN BOOLEAN ELSE {TRUE} :
        LET j == job[s]
            result == IF outcome = "success"
                      THEN finalize(j, unwrap_or(split_frontend, FALSE),
                                    unwrap_or(create_launcher, FALSE), launcher_ok)
                      ELSE EmitResult(j, Failure)
        IN  \E g \in restore_original_file(fs, j.request.entry_file, io[1], io[2]) :
                /\ fs' = g
                /\ faults' = ChargeRestore(io, faults)
                /\ job' = [job EXCEPT ![s] = Finish(NoteRestore(result, io[1], io[2]))]
    /\ UNCHANGED jobsStarted
    /\ UNCHANGED notJobVars

-----------------------------------------------------------------------------
(* run_nodejs_compilation *)

NpmStates == {"install_ok", "install_nonzero", "install_err",
              "no_package_json", "installed"}

\* Start event, entry file check, npm install when node_modules is missing.
Nodejs_Start(s) ==
    /\ CanStart(s)
    /\ \E req \in Requests, npm \in NpmStates :
        LET j0 == [IdleJob EXCEPT !.kind = "nodejs", !.request = req, !.fs0 = fs,
                                  !.bootstrap_filename =
                                      BootstrapFile(ToString(jobsStarted))]
            j1 == EmitProgress(j0, 0)
            j2 == EmitProgress(j1, 10)
            j3 == CASE npm = "install_ok" -> EmitProgress(EmitProgress(j2, 12), 18)
                    [] npm \in {"install_nonzero", "install_err"} -> EmitProgress(j2, 12)
                    [] OTHER -> EmitProgress(j2, 15)
        IN  job' = [job EXCEPT ![s] =
                IF ~Exists(fs, req.entry_file)
                THEN Finish(EmitResult(j1, Failure))
                ELSE IF npm \in {"install_nonzero", "install_err"}
                THEN Finish(EmitResult(j3, Failure))
                ELSE [EmitProgress(j3, 20) EXCEPT !.pc = "d_files"]]
    /\ jobsStarted' = jobsStarted + 1
    /\ UNCHANGED <<fs, faults>>
    /\ UNCHANGED notJobVars

FilesIo == {"ok", "wrapper_fail", "bootstrap_fail"}

\* Create the license wrapper file and the bootstrap entry file.
Nodejs_Files(s) ==
    /\ job[s].pc = "d_files"
    /\ \E io \in MayFail(FilesIo), cleanup_ok \in BOOLEAN :
        LET j == job[s]
            wrapped == WriteFile(fs, WrapperFile, <<"validateLicense">>)
            bootstrap == <<"require", j.request.entry_file>>
        IN  /\ faults' = Charge(io)
            /\ CASE io = "wrapper_fail" ->
                    /\ fs' \in FailedWrite(fs, WrapperFile, <<"validateLicense">>)
                    /\ job' = [job EXCEPT ![s] = Finish(EmitResult(j, Failure))]
                 [] io = "bootstrap_fail" ->
                    /\ \E g \in FailedWrite(wrapped, j.bootstrap_filename, bootstrap) :
                          fs' = IF cleanup_ok THEN RemoveFile(g, WrapperFile) ELSE g
                    /\ job' = [job EXCEPT ![s] = Finish(EmitResult(j, Failure))]
                 [] OTHER ->
                    /\ fs' = WriteFile(wrapped, j.bootstrap_filename, bootstrap)
                    /\ job' = [job EXCEPT ![s] =
                          [EmitProgress(EmitProgress(EmitProgress(j, 25), 40), 45)
                             EXCEPT !.pc = "d_spawn"]]
    /\ UNCHANGED jobsStarted
    /\ UNCHANGED notJobVars

\* std::fs::remove_file(&wrapper_path).ok(); std::fs::remove_file(&bootstrap_path).ok();
cleanup(f, bootstrap_path, wrapper_removed, bootstrap_removed) ==
    LET g == IF wrapper_removed THEN RemoveFile(f, WrapperFile) ELSE f
    IN  IF bootstrap_removed THEN RemoveFile(g, bootstrap_path) ELSE g

CleanupIo == IF faults < MaxFaults THEN BOOLEAN \X BOOLEAN ELSE {<<TRUE, TRUE>>}

\* Spawn pkg; on failure remove the temporary files and report.
Nodejs_Spawn(s) ==
    /\ job[s].pc = "d_spawn"
    /\ \E spawn_ok \in BOOLEAN :
        IF spawn_ok
        THEN /\ job' = [job EXCEPT ![s] =
                    [@ EXCEPT !.progress = 50, !.lines = 0, !.pc = "d_stdout"]]
             /\ UNCHANGED <<fs, faults>>
        ELSE \E io \in CleanupIo :
             /\ fs' = cleanup(fs, job[s].bootstrap_filename, io[1], io[2])
             /\ faults' = ChargeRestore(io, faults)
             /\ job' = [job EXCEPT ![s] = Finish(EmitResult(job[s], Failure))]
    /\ UNCHANGED jobsStarted
    /\ UNCHANGED notJobVars

\* One line of the child's stdout.
Nodejs_StdoutLine(s) ==
    /\ job[s].pc = "d_stdout"
    /\ job[s].lines < MaxLines
    /\ LET progress_counter == min(job[s].progress + 2, 90)
       IN  job' = [job EXCEPT ![s] =
               [EmitProgress(job[s], progress_counter)
                  EXCEPT !.progress = progress_counter, !.lines = @ + 1]]
    /\ UNCHANGED <<fs, jobsStarted, faults>>
    /\ UNCHANGED notJobVars

\* End of stdout: the job turns to stderr.
Nodejs_StdoutEof(s) ==
    /\ job[s].pc = "d_stdout"
    /\ job' = [job EXCEPT ![s] = [@ EXCEPT !.pc = "d_stderr", !.lines = 0]]
    /\ UNCHANGED <<fs, jobsStarted, faults>>
    /\ UNCHANGED notJobVars

\* One line of the child's stderr.
Nodejs_StderrLine(s) ==
    /\ job[s].pc = "d_stderr"
    /\ job[s].lines < MaxLines
    /\ job' = [job EXCEPT ![s] =
           [EmitProgress(job[s], job[s].progress) EXCEPT !.lines = @ + 1]]
    /\ UNCHANGED <<fs, jobsStarted, faults>>
    /\ UNCHANGED notJobVars

Nodejs_StderrEof(s) ==
    /\ job[s].pc = "d_stderr"
    /\ job' = [job EXCEPT ![s] = [@ EXCEPT !.pc = "d_wait", !.lines = 0]]
    /\ UNCHANGED <<fs, jobsStarted, faults>>
    /\ UNCHANGED notJobVars

\* child.wait(), cleanup of the temporary files, then the result.
Nodejs_Wait(s) ==
    /\ job[s].pc = "d_wait"
    /\ \E outcome \in WaitOutcomes, io \in CleanupIo :
        /\ fs' = cleanup(fs, job[s].bootstrap_filename, io[1], io[2])
        /\ faults' = ChargeRestore(io, faults)
        /\ job' = [job EXCEPT ![s] =
              IF outcome = "success"
              THEN Finish(EmitResult(EmitProgress(job[s], 100), Success))
              ELSE Finish(EmitResult(job[s], Failure))]
    /\ UNCHANGED jobsStarted
    /\ UNCHANGED notJobVars

-----------------------------------------------------------------------------
(* run_installer_build *)

\* Start event and the event before the call of the build API.
Installer_Start(s) ==
    /\ CanStart(s)
    /\ \E req \in Requests :
        job' = [job EXCEPT ![s] =
            [EmitProgress(EmitProgress(
                [IdleJob EXCEPT !.kind = "installer", !.request = req, !.fs0 = fs],
                0), 10) EXCEPT !.pc = "i_call"]]
    /\ jobsStarted' = jobsStarted + 1
    /\ UNCHANGED <<fs, faults>>
    /\ UNCHANGED notJobVars

ApiOutcomes == {"send_err", "http_error", "bad_json", "success_false", "success_true"}

\* The response of POST /api/v1/build/installer.
Installer_Response(s) ==
    /\ job[s].pc = "i_call"
    /\ \E outcome \in ApiOutcomes :
        job' = [job EXCEPT ![s] =
            IF outcome = "success_true"
            THEN Finish(EmitResult(EmitProgress(job[s], 100), Success))
            ELSE Finish(EmitResult(job[s], Failure))]
    /\ UNCHANGED <<fs, jobsStarted, faults>>
    /\ UNCHANGED notJobVars

\* The caller drops the job once its terminal event is delivered.
Collect(s) ==
    /\ job[s].pc = "done"
    /\ job' = [job EXCEPT ![s] = IdleJob]
    /\ UNCHANGED <<fs, jobsStarted, faults>>
    /\ UNCHANGED notJobVars

Next ==
    \E s \in Slots :
        \/ Nuitka_Start(s)
        \/ Nuitka_Inject(s)
        \/ Nuitka_Install(s)
        \/ Nuitka_RestoreAndFail(s)
        \/ Nuitka_Env(s)
        \/ Nuitka_Deps(s)
        \/ Nuitka_Frontend(s)
        \/ Nuitka_Args(s)
        \/ Nuitka_Spawn(s)
        \/ Nuitka_Line(s)
        \/ Nuitka_Eof(s)
        \/ Nuitka_Wait(s)
        \/ Nodejs_Start(s)
        \/ Nodejs_Files(s)
        \/ Nodejs_Spawn(s)
        \/ Nodejs_StdoutLine(s)
        \/ Nodejs_StdoutEof(s)
        \/ Nodejs_StderrLine(s)
        \/ Nodejs_StderrEof(s)
        \/ Nodejs_Wait(s)
        \/ Installer_Start(s)
        \/ Installer_Response(s)
        \/ Collect(s)

Spec == Init /\ [][Next]_vars

-----------------------------------------------------------------------------
(* The embedded validation protocol: the code that inject_license_wrapper     *)
(* (Python fragment) and run_nodejs_compilation (JavaScript wrapper) generate *)
(* and that runs when the produced executable starts.                         *)

\* The last clock value of a behaviour (25 hours, in seconds).
MaxNow == 90000
\* The clock values at which an executable is started: 0, then 59, 60 and 61
\* minutes, then 23 and 24 hours, then MaxNow.
Instants == {0, 3540, 3600, 3660, 82800, 86400, MaxNow}

\* _LW_GRACE_PERIOD = 24 * 60 * 60
LW_GRACE_PERIOD == 24 * 60 * 60

\* What the validation request meets: no connection, or an HTTP response
\* with its status code and the "status" field of its JSON body.
Replies == {"unreachable", "200 valid", "200 revoked", "403 revoked", "200 garbage"}

\* The server gave a definitive answer other than "valid".
NonValid(reply) == reply \in {"200 revoked", "403 revoked"}

\* One condition of the machine per run: everything works, the embedded server
\* URL does not parse, the process has no usable stdin (a windowed build, or
\* stdin at end-of-file), or one file operation fails.
Envs == {"ok", "bad_url", "no_stdin", "load_fail", "save_fail",
         "marker_read_fail", "marker_write_fail"}

\* _lw_load_cache: None when the file is missing or cannot be read or parsed.
lw_load_cache(c, env) == IF env = "load_fail" THEN {} ELSE c

\* _lw_save_cache: errors are swallowed; a failed write leaves the old record
\* or a file that no longer parses (which loads as None).
lw_save_cache(c, valid, t, env) ==
    IF env = "save_fail" THEN {c, {}}
    ELSE {{[valid |-> valid, last_validated |-> t]}}

lw_check_grace_period(c, t, env) ==
    LET loaded == lw_load_cache(c, env)
    IN  /\ loaded # {}
        /\ LET record == CHOOSE r \in loaded : TRUE
               elapsed == t - record.last_validated
           IN  record.valid /\ elapsed < LW_GRACE_PERIOD

\* _lw_validate: ok is TRUE when it returns True and FALSE when the process
\* terminates; network tells whether the request was sent.
\* urlopen raises HTTPError, a subclass of URLError, for a response whose
\* status code is not 2xx, so such a response takes the URLError handler.
lw_validate(key, reply, c, t, env) ==
    IF key = "DEMO" \/ key = ""
    THEN {[ok |-> TRUE, network |-> FALSE, cache |-> c]}
    ELSE IF env = "bad_url"
    THEN {[ok |-> FALSE, network |-> FALSE, cache |-> c]}
    ELSE CASE reply = "200 valid" ->
                {[ok |-> TRUE, network |-> TRUE, cache |-> c2] :
                    c2 \in lw_save_cache(c, TRUE, t, env)}
           [] reply = "200 revoked" ->
                {[ok |-> FALSE, network |-> TRUE, cache |-> c2] :
                    c2 \in lw_save_cache(c, FALSE, t, env)}
           [] reply \in {"unreachable", "403 revoked"} ->
                {[ok |-> lw_check_grace_period(c, t, env), network |-> TRUE,
                  cache |-> c]}
           [] OTHER ->
                {[ok |-> FALSE, network |-> TRUE, cache |-> c]}

\* validateLicense of the JavaScript wrapper: no cache is read or written.
validateLicense(key, reply, env) ==
    IF key = "DEMO"
    THEN [ok |-> TRUE, network |-> FALSE]
    ELSE IF env = "bad_url"
    THEN [ok |-> FALSE, network |-> FALSE]
    ELSE [ok |-> reply = "200 valid", network |-> TRUE]

\* The content of a marker file that exists and does not parse.
Corrupt == 0 - 1

\* _lw_check_demo: result is "proceed" or "expired" (the process terminates).
\* Every exception inside the try block, the one input() raises without a
\* usable stdin included, ends in `return True`.
lw_check_demo(demo_duration_minutes, mk, t, env) ==
    LET DEMO_DURATION_SECONDS == demo_duration_minutes * 60
        check(start_time, mk2) ==
            LET elapsed == t - start_time
                remaining == DEMO_DURATION_SECONDS - elapsed
            IN  IF remaining <= 0 /\ env # "no_stdin"
                THEN [result |-> "expired", marker |-> mk2]
                ELSE [result |-> "proceed", marker |-> mk2]
    IN  IF mk # {}
        THEN IF env = "marker_read_fail" \/ mk = {Corrupt}
             THEN {[result |-> "proceed", marker |-> mk]}
             ELSE {check(CHOOSE x \in mk : TRUE, mk)}
        ELSE IF env = "marker_write_fail"
             THEN {[result |-> "proceed", marker |-> mk2] : mk2 \in {{}, {Corrupt}}}
             ELSE {check(t, {t})}

\* The executables the builder produces: the Python fragment is injected only
\* for a non-empty key and holds the demo check when demo_mode is set and the
\* duration is positive (demo = 0: no demo check); the JavaScript wrapper is
\* written for every key and has no demo check.
DemoDurations == {0, 60}
Builds ==
    [variant : {"python"}, key : {"DEMO", "LK-1"}, demo : DemoDurations]
    \cup [variant : {"javascript"}, key : Keys, demo : {0}]

JobsIdle ==
    /\ fs = InitFs
    /\ job = [s \in Slots |-> IdleJob]
    /\ jobsStarted = 0
    /\ faults = 0

\* A produced executable starts: _lw_validate() and then, when it returned,
\* _lw_check_demo(); or validateLicense().
Startup ==
    /\ run = NoRun
    /\ \E build \in Builds, reply \in Replies, env \in Envs :
        LET key == build.key
            sent(v) == IF v.network THEN reply ELSE "none"
            told(v) == [k \in Keys |->
                          IF k = key /\ v.network /\ NonValid(reply) THEN TRUE
                          ELSE IF k = key /\ v.network /\ reply = "200 valid" THEN FALSE
                          ELSE revoked[k]]
        IN  IF build.variant = "python"
            THEN \E v \in lw_validate(key, reply, cache[key], now, env) :
                 \E d \in IF v.ok /\ build.demo > 0
                          THEN lw_check_demo(build.demo, demo_file, now, env)
                          ELSE {[result |-> "none", marker |-> demo_file]} :
                    /\ cache' = [cache EXCEPT ![key] = v.cache]
                    /\ demo_file' = d.marker
                    /\ revoked' = told(v)
                    /\ run' = [variant |-> "python", key |-> key, demo |-> build.demo,
                               reply |-> sent(v), env |-> env,
                               validated |-> v.ok, network |-> v.network,
                               demo_result |-> d.result]
            ELSE LET v == validateLicense(key, reply, env)
                 IN  /\ revoked' = told(v)
                     /\ run' = [variant |-> "javascript", key |-> key, demo |-> 0,
                                reply |-> sent(v), env |-> env,
                                validated |-> v.ok, network |-> v.network,
                                demo_result |-> "none"]
                     /\ UNCHANGED <<cache, demo_file>>
    /\ UNCHANGED now
    /\ UNCHANGED <<jobVars, pipeVars, synth, sidecarVars, call>>

\* The process has ended; the next one starts at the same or a later instant.
Tick ==
    /\ run # NoRun
    /\ \E t \in Instants :
        /\ t >= now
        /\ now' = t
    /\ run' = NoRun
    /\ UNCHANGED <<cache, demo_file, revoked>>
    /\ UNCHANGED <<jobVars, pipeVars, synth, sidecarVars, call>>

ProtocolInit == JobsIdle /\ MachineInit /\ NoChild /\ NoSynth /\ NoSidecar /\ NoCall

ProtocolNext == Startup \/ Tick

ProtocolSpec == ProtocolInit /\ [][ProtocolNext]_vars

-----------------------------------------------------------------------------
(* The packaging tool as a child process: run_nuitka_compilation and          *)
(* run_nodejs_compilation spawn it with stdout and stderr piped, read lines,  *)
(* wait for it and emit the result.  A pipe holds a bounded number of lines;  *)
(* a write to a full pipe blocks the child until the job reads from it.       *)

\* Lines a pipe holds before a write to it blocks.
PipeCap == 1
\* Number of lines the child writes in all.
MaxWrites == 3

\* A line whose bytes are not valid UTF-8: lines.next_line() returns Err for it.
InvalidUtf8 == "invalid utf-8"
PipeLines == {"Nuitka:INFO:", "Nuitka:ERROR:", InvalidUtf8}
Streams == {"stdout", "stderr"}
Writes == [stream : Streams, line : PipeLines]

RECURSIVE SeqsUpTo(_, _)
SeqsUpTo(S, n) ==
    IF n = 0 THEN {<<>>}
    ELSE LET shorter == SeqsUpTo(S, n - 1)
         IN  shorter \cup {Append(q, x) : q \in {r \in shorter : Len(r) = n - 1}, x \in S}

\* What a child writes, in the order it writes it.
Programs == SeqsUpTo(Writes, MaxWrites)

Tools == {"nuitka", "pkg"}

\* The stream whose loop comes first, and the one after a loop has ended.
first_loop(tool) == IF tool = "nuitka" THEN "stderr" ELSE "stdout"
next_loop(tool, stream) ==
    IF tool = "pkg" /\ stream = "stdout" THEN "stderr" ELSE "wait"

\* The counter a loop starts with.
initial_progress(tool) == IF tool = "nuitka" THEN 10 ELSE 50

\* The counter after a line of the given stream.
line_progress(tool, stream, progress, line_text) ==
    IF tool = "nuitka" THEN classify(progress, line_text)
    ELSE IF stream = "stdout" THEN min(progress + 2, 90)
    ELSE progress

\* The error message of a failure result, as the pieces it is formatted from.
spawn_error(tool) ==
    IF tool = "nuitka" THEN <<"Failed to start Nuitka", "e">>
    ELSE <<"Failed to start pkg", "e">>
wait_error(tool) ==
    IF tool = "nuitka" THEN <<"e">> ELSE <<"Failed to wait for pkg", "e">>
exit_error(tool, stdout_lines, stderr_lines) ==
    IF tool = "nuitka" THEN <<"Compilation failed">>
    ELSE <<"pkg build failed:">> \o stdout_lines \o stderr_lines

Pipe(c, stream) == IF stream = "stdout" THEN c.stdout ELSE c.stderr
WithPipe(c, stream, q) ==
    IF stream = "stdout" THEN [c EXCEPT !.stdout = q] ELSE [c EXCEPT !.stderr = q]

\* Command::new(..).stdout(piped()).stderr(piped()).spawn()
Invoker_Spawn ==
    /\ inv.pc = "idle"
    /\ \E tool \in Tools, spawn_ok \in BOOLEAN :
        IF spawn_ok
        THEN \E todo \in Programs, exit_code \in {0, 1} :
                /\ child' = [todo |-> todo, status |-> "running", exit_code |-> exit_code,
                             stdout |-> <<>>, stderr |-> <<>>, written |-> <<>>]
                /\ inv' = [inv EXCEPT !.tool = tool, !.pc = first_loop(tool),
                                      !.reads = Streams,
                                      !.progress = initial_progress(tool)]
        ELSE /\ inv' = [inv EXCEPT !.tool = tool, !.pc = "done",
                                   !.result = {[success |-> FALSE,
                                                error_message |-> spawn_error(tool)]}]
             /\ UNCHANGED child
    /\ UNCHANGED <<jobVars, protoVars, synth, sidecarVars, call>>

\* The child writes its next line.  While the job holds the read end of the
\* pipe the write needs room in it; once the job has dropped the read end the
\* write fails, and the child goes on without the line or dies of it.
Child_Write ==
    /\ child.status = "running"
    /\ child.todo # <<>>
    /\ LET w == Head(child.todo)
       IN  IF w.stream \in inv.reads
           THEN /\ Len(Pipe(child, w.stream)) < PipeCap
                /\ child' = [WithPipe(child, w.stream, Append(Pipe(child, w.stream), w.line))
                                EXCEPT !.todo = Tail(@), !.written = Append(@, w)]
           ELSE \/ child' = [child EXCEPT !.todo = Tail(@)]
                \/ child' = [child EXCEPT !.todo = <<>>, !.status = "exited",
                                          !.exit_code = 1]
    /\ UNCHANGED inv
    /\ UNCHANGED <<jobVars, protoVars, synth, sidecarVars, call>>

\* The child has written everything and exits: its ends of the pipes close.
Child_Exit ==
    /\ child.status = "running"
    /\ child.todo = <<>>
    /\ child' = [child EXCEPT !.status = "exited"]
    /\ UNCHANGED inv
    /\ UNCHANGED <<jobVars, protoVars, synth, sidecarVars, call>>

\* The reader of a loop goes out of scope when the loop has ended.
EndLoop(i) == [i EXCEPT !.pc = next_loop(i.tool, i.pc), !.reads = @ \ {i.pc}]

\* while let Ok(Some(line)) = lines.next_line().await: a line is there.
Invoker_ReadLine ==
    /\ inv.pc \in Streams
    /\ Pipe(child, inv.pc) # <<>>
    /\ LET line_text == Head(Pipe(child, inv.pc))
           progress == line_progress(inv.tool, inv.pc, inv.progress, line_text)
           collected == IF inv.tool = "pkg" THEN <<line_text>> ELSE <<>>
       IN  /\ child' = WithPipe(child, inv.pc, Tail(Pipe(child, inv.pc)))
           /\ inv' = IF line_text = InvalidUtf8
                     THEN EndLoop(inv)
                     ELSE [inv EXCEPT
                            !.progress = progress,
                            !.stdout_lines = IF inv.pc = "stdout" THEN @ \o collected ELSE @,
                            !.stderr_lines = IF inv.pc = "stderr" THEN @ \o collected ELSE @,
                            !.events = Append(@, [stream |-> inv.pc, line |-> line_text,
                                                  progress |-> progress])]
    /\ UNCHANGED <<jobVars, protoVars, synth, sidecarVars, call>>

\* lines.next_line() returns Ok(None): the pipe is empty and its write end closed.
Invoker_Eof ==
    /\ inv.pc \in Streams
    /\ Pipe(child, inv.pc) = <<>>
    /\ child.status = "exited"
    /\ inv' = EndLoop(inv)
    /\ UNCHANGED child
    /\ UNCHANGED <<jobVars, protoVars, synth, sidecarVars, call>>

\* child.wait().await and the match on its status.
Invoker_Wait ==
    /\ inv.pc = "wait"
    /\ child.status = "exited"
    /\ \E wait_ok \in BOOLEAN :
        inv' = [inv EXCEPT
                 !.pc = "done",
                 !.post_steps = wait_ok /\ child.exit_code = 0,
                 !.result =
                    IF ~wait_ok
                    THEN {[success |-> FALSE, error_message |-> wait_error(inv.tool)]}
                    ELSE IF child.exit_code = 0
                    THEN {[success |-> TRUE, error_message |-> <<>>]}
                    ELSE {[success |-> FALSE,
                           error_message |-> exit_error(inv.tool, inv.stdout_lines,
                                                        inv.stderr_lines)]}]
    /\ UNCHANGED child
    /\ UNCHANGED <<jobVars, protoVars, synth, sidecarVars, call>>

PipeInit == JobsIdle /\ MachineInit /\ NoChild /\ NoSynth /\ NoSidecar /\ NoCall

PipeNext ==
    \/ Invoker_Spawn
    \/ Child_Write
    \/ Child_Exit
    \/ Invoker_ReadLine
    \/ Invoker_Eof
    \/ Invoker_Wait

PipeSpec == PipeInit /\ [][PipeNext]_vars

-----------------------------------------------------------------------------
(* Argument synthesis of run_nuitka_compilation: the vector passed to        *)
(* `python`.  An argument is the tuple of the pieces it is formatted from.   *)

\* detect_python_packages / detect_data_directories: what a project directory
\* can yield.
DetectedPackages == {<<>>, <<"pkg_a", "pkg_b">>}
DetectedDataDirs == {<<>>, <<"data", "static">>}
\* request.include_packages / request.include_data_dirs
PackageLists == Option({<<>>, <<"pkg_a">>, <<"pkg_c", "pkg_a">>})
DataDirLists == Option({<<>>, <<"data">>, <<"assets", "data">>})

ArgEntryFiles == {"main.py", "pkg/run.py"}

ArgRequests ==
    [entry_file : ArgEntryFiles,
     onefile : Option(BOOLEAN),
     console : Option({TRUE}),
     output_name : Option({"tool"}),
     icon_path : Option({"app.ico"}),
     output_dir : Option({"'out'"}),
     include_packages : PackageLists,
     exclude_packages : Option({<<"tests">>}),
     include_data_dirs : DataDirLists,
     include_data_files : Option({<<"a.json">>}),
     bundle_requirements : Option({TRUE}),
     split_frontend : Option(BOOLEAN)]

\* What the synthesis reads besides the request.
ArgContexts ==
    [detected_packages : DetectedPackages,
     detected_data_dirs : DetectedDataDirs,
     requirements_exists : BOOLEAN,
     frontend_dist_path : Option({"frontend/dist"})]

\* request.entry_file.replace(".py", "")
replace_py(entry_file) == IF entry_file = "main.py" THEN "main" ELSE "pkg/run"
\* out_dir.trim_matches('"').trim_matches('\'')
trim_matches(out_dir) == IF out_dir = "'out'" THEN "out" ELSE out_dir

\* for x in &list { args.push(format!("<flag>{}", x)) }
push_each(list, flag) == [i \in DOMAIN list |-> <<flag, list[i]>>]
\* for x in &list { args.push(format!("<flag>{}={}", x, x)) }
push_each_pair(list, flag) == [i \in DOMAIN list |-> <<flag, list[i], "=", list[i]>>]

chosen_merged(explicit, detected) == detected \o unwrap_or(explicit, <<>>)

\* if let Some(ref list) = request.. { list.clone() } else { detect..(project_path) }
chosen(explicit, detected) == IF explicit # {} THEN unwrap_or(explicit, <<>>) ELSE detected

nuitka_args(request, ctx) ==
    LET packages == chosen(request.include_packages, ctx.detected_packages)
        data_dirs == chosen(request.include_data_dirs, ctx.detected_data_dirs)
        output_name == unwrap_or(request.output_name, replace_py(request.entry_file))
    IN  <<<<"-m">>, <<"nuitka">>, <<"--standalone">>, <<"--remove-output">>>>
        \o (IF unwrap_or(request.onefile, TRUE) THEN <<<<"--onefile">>>> ELSE <<>>)
        \o (IF ~unwrap_or(request.console, FALSE)
            THEN <<<<"--windows-console-mode=disable">>>> ELSE <<>>)
        \o <<<<"--output-filename=", output_name, ".exe">>>>
        \o (IF request.icon_path # {}
            THEN <<<<"--windows-icon-from-ico=", unwrap_or(request.icon_path, "")>>>>
            ELSE <<>>)
        \o (IF request.output_dir # {}
            THEN <<<<"--output-dir=", trim_matches(unwrap_or(request.output_dir, ""))>>>>
            ELSE <<>>)
        \o push_each(packages, "--include-package=")
        \o push_each(unwrap_or(request.exclude_packages, <<>>), "--nofollow-import-to=")
        \o push_each_pair(data_dirs, "--include-data-dir=")
        \o push_each_pair(unwrap_or(request.include_data_files, <<>>),
                          "--include-data-files=")
        \* (req_path is "requirements.txt" unless request.requirements_path is set)
        \o (IF unwrap_or(request.bundle_requirements, FALSE) /\ ctx.requirements_exists
            THEN <<<<"--include-data-files=", "requirements.txt", "=", "requirements.txt">>>>
            ELSE <<>>)
        \o (IF ctx.frontend_dist_path # {} /\ ~unwrap_or(request.split_frontend, FALSE)
            THEN <<<<"--include-data-dir=", unwrap_or(ctx.frontend_dist_path, ""),
                     "=", "static">>>>
            ELSE <<>>)
        \o <<<<request.entry_file>>>>

\* The vector is built once the optional steps are over.
Synthesize ==
    /\ synth.pc = "inputs"
    /\ synth' = [synth EXCEPT !.pc = "built",
                              !.args = nuitka_args(synth.request, synth.ctx)]
    /\ UNCHANGED <<jobVars, protoVars, pipeVars, sidecarVars, call>>

ArgsInit ==
    /\ JobsIdle /\ MachineInit /\ NoChild /\ NoSidecar /\ NoCall
    /\ \E request \in ArgRequests, ctx \in ArgContexts :
        synth = [pc |-> "inputs", request |-> request, ctx |-> ctx, args |-> <<>>]

ArgsNext == Synthesize

ArgsSpec == ArgsInit /\ [][ArgsNext]_vars

-----------------------------------------------------------------------------
(* Concurrent jobs: run_nuitka_compilation is an async command, so a second  *)
(* invocation can start while the first is in flight.  Two invocations for   *)
(* the same project directory and entry file, followed through their file    *)
(* operations and their result; progress events are left out here.           *)

SharedEntryFile == P_nested

\* The start of run_nuitka_compilation, whatever the other slot does.
Files_Start(s) ==
    /\ job[s].pc = "idle"
    /\ jobsStarted < MaxJobs
    /\ \E req \in Requests, project_exists \in BOOLEAN :
        /\ req.entry_file = SharedEntryFile
        /\ LET j0 == [IdleJob EXCEPT !.kind = "nuitka", !.request = req, !.fs0 = fs]
           IN  job' = [job EXCEPT ![s] =
                   IF ~project_exists \/ is_nodejs(req.entry_file)
                   THEN Finish(EmitResult(j0, Failure))
                   ELSE [j0 EXCEPT !.pc = "f_inject"]]
    /\ jobsStarted' = jobsStarted + 1
    /\ UNCHANGED <<fs, faults>>
    /\ UNCHANGED notJobVars

\* if !license_key.is_empty() { inject_license_wrapper(..) }
Files_Inject(s) ==
    /\ job[s].pc = "f_inject"
    /\ \E key \in LicenseKeys :
        LET j == job[s]
            license_key == unwrap_or(key, "DEMO")
        IN  IF license_key = ""
            THEN /\ job' = [job EXCEPT ![s].pc = "f_install"]
                 /\ UNCHANGED <<fs, faults>>
            ELSE \E dm \in Option(BOOLEAN), dd \in Option({0, 30}),
                    io \in MayFail(InjectIo) :
                 \E r \in inject_license_wrapper(fs, j.request.entry_file,
                            unwrap_or(dm, FALSE), unwrap_or(dd, 60), io) :
                    /\ fs' = r.fs
                    /\ faults' = Charge(io)
                    /\ job' = [job EXCEPT ![s] =
                          IF r.ok
                          THEN [j EXCEPT !.injected = TRUE, !.pc = "f_install"]
                          ELSE Finish(EmitResult(j, Failure))]
    /\ UNCHANGED jobsStarted
    /\ UNCHANGED notJobVars

\* install_requirements: its failure returns without a restore.
Files_Install(s) ==
    /\ job[s].pc = "f_install"
    /\ \E install \in Option(BOOLEAN), outcome \in PipOutcomes :
        LET j == job[s]
        IN  job' = [job EXCEPT ![s] =
               IF unwrap_or(install, FALSE) /\ Exists(fs, j.request.requirements_path)
                  /\ outcome # "ok"
               THEN Finish(EmitResult(j, Failure))
               ELSE [j EXCEPT !.pc = "f_env"]]
    /\ UNCHANGED <<fs, jobsStarted, faults>>
    /\ UNCHANGED notJobVars

\* inject_env_values
Files_Env(s) ==
    /\ job[s].pc = "f_env"
    /\ \E env_values \in Option({"empty", "nonempty"}) :
        LET j == job[s]
        IN  IF env_values = {"nonempty"}
            THEN \E io \in MayFail(PrependIo) :
                 \E r \in inject_env_values(fs, j.request.entry_file, io) :
                    /\ fs' = r.fs
                    /\ faults' = Charge(io)
                    /\ job' = [job EXCEPT ![s].pc = IF r.ok THEN "f_deps" ELSE "f_restore"]
            ELSE /\ job' = [job EXCEPT ![s].pc = "f_deps"]
                 /\ UNCHANGED <<fs, faults>>
    /\ UNCHANGED jobsStarted
    /\ UNCHANGED notJobVars

\* inject_first_run_deps_installer
Files_Deps(s) ==
    /\ job[s].pc = "f_deps"
    /\ LET j == job[s]
       IN  IF j.request.bundle_requirements /\ Exists(fs, j.request.requirements_path)
           THEN \E io \in MayFail(PrependIo) :
                \E r \in inject_first_run_deps_installer(fs, j.request.entry_file, io) :
                   /\ fs' = r.fs
                   /\ faults' = Charge(io)
                   /\ job' = [job EXCEPT ![s].pc = IF r.ok THEN "f_build" ELSE "f_restore"]
           ELSE /\ job' = [job EXCEPT ![s].pc = "f_build"]
                /\ UNCHANGED <<fs, faults>>
    /\ UNCHANGED jobsStarted
    /\ UNCHANGED notJobVars

\* The frontend build (its failure goes to the restoring error path), then
\* the spawn of the compiler (its failure returns without a restore).
Files_Build(s) ==
    /\ job[s].pc = "f_build"
    /\ \E frontend_ok \in BOOLEAN, spawn_ok \in BOOLEAN :
        job' = [job EXCEPT ![s] =
            IF ~frontend_ok THEN [job[s] EXCEPT !.pc = "f_restore"]
            ELSE IF ~spawn_ok THEN Finish(EmitResult(job[s], Failure))
            ELSE [job[s] EXCEPT !.pc = "f_wait"]]
    /\ UNCHANGED <<fs, jobsStarted, faults>>
    /\ UNCHANGED notJobVars

\* restore_original_file, on the error path (before the failure result) and
\* at the end of the job (after the result).
Files_Restore(s) ==
    /\ job[s].pc \in {"f_restore", "f_wait"}
    /\ \E outcome \in (IF job[s].pc = "f_wait" THEN WaitOutcomes ELSE {"nonzero"}),
          io \in RestoreIo(fs, job[s].request.entry_file, faults) :
        \E g \in restore_original_file(fs, job[s].request.entry_file, io[1], io[2]) :
            /\ fs' = g
            /\ faults' = ChargeRestore(io, faults)
            /\ job' = [job EXCEPT ![s] =
                  Finish(NoteRestore(
                      EmitResult(job[s], IF outcome = "success" THEN Success ELSE Failure),
                      io[1], io[2]))]
    /\ UNCHANGED jobsStarted
    /\ UNCHANGED notJobVars

\* The file operations of these jobs all succeed: what goes wrong is due to
\* the interleaving alone.
ConcurrentInit ==
    /\ fs = InitFs
    /\ job = [s \in Slots |-> IdleJob]
    /\ jobsStarted = 0
    /\ faults = MaxFaults
    /\ MachineInit /\ NoChild /\ NoSynth /\ NoSidecar /\ NoCall

ConcurrentNext ==
    \E s \in Slots :
        \/ Files_Start(s)
        \/ Files_Inject(s)
        \/ Files_Install(s)
        \/ Files_Env(s)
        \/ Files_Deps(s)
        \/ Files_Build(s)
        \/ Files_Restore(s)

ConcurrentSpec == ConcurrentInit /\ [][ConcurrentNext]_vars

-----------------------------------------------------------------------------
(* backend_manager.rs: the Python backend that the desktop app runs as a     *)
(* sidecar process.  start_backend, is_backend_running and stop_backend are  *)
(* public functions; they are called from threads of the app.  A sidecar     *)
(* listens on a port of its own choice (--auto-port) and writes it to the    *)
(* port file; the port of sidecar i is written i here.                       *)

\* let max_attempts = 30
max_attempts == 30
\* thread::sleep(Duration::from_millis(500))
poll_interval_ms == 500

Alive(i) == sidecars[i] \in {"running", "listening"}

\* get_backend_port(): the content of the port file, if it exists.
get_backend_port == port_file

\* check_backend_health_sync(port): a TCP connection to the port succeeds.
check_backend_health_sync(port) == sidecars[port] = "listening"

\* is_backend_running(), with the lock held: what it returns and the handle
\* it leaves.
is_backend_running ==
    IF BACKEND_PROCESS # {}
    THEN LET c == CHOOSE c \in BACKEND_PROCESS : TRUE
         IN  IF Alive(c)
             THEN [running |-> TRUE, process |-> BACKEND_PROCESS]
             ELSE [running |-> FALSE, process |-> {}]
    ELSE [running |-> get_backend_port # {}
                      /\ check_backend_health_sync(unwrap_or(get_backend_port, 0)),
          process |-> BACKEND_PROCESS]

Ok(port) == [ok |-> TRUE, value |-> port]
Err(message) == [ok |-> FALSE, value |-> message]

Return(t, r) == [thread EXCEPT ![t] = [@ EXCEPT !.pc = "done", !.result = {r}]]
Goto(t, pc) == [thread EXCEPT ![t].pc = pc]

\* A thread calls one of the three public functions.
BackendCalls == {"start_backend", "stop_backend", "is_backend_running"}
first_pc(op) ==
    CASE op = "start_backend" -> "s_check"
      [] op = "stop_backend" -> "k_lock"
      [] OTHER -> "r_check"

Backend_Call(t) ==
    /\ thread[t].pc \in {"idle", "done"}
    /\ \E op \in BackendCalls :
        thread' = [thread EXCEPT ![t] = [IdleThread EXCEPT !.pc = first_pc(op), !.op = op]]
    /\ UNCHANGED <<BACKEND_PROCESS, mutex, sidecars, port_file>>
    /\ UNCHANGED <<jobVars, protoVars, pipeVars, synth, call>>

\* pub fn is_backend_running(), called on its own.
Running_Check(t) ==
    /\ thread[t].pc = "r_check"
    /\ mutex = 0
    /\ BACKEND_PROCESS' = is_backend_running.process
    /\ thread' = Return(t, Ok(is_backend_running.running))
    /\ UNCHANGED <<mutex, sidecars, port_file>>
    /\ UNCHANGED <<jobVars, protoVars, pipeVars, synth, call>>

\* start_backend: if is_backend_running() { .. }
Start_Check(t) ==
    /\ thread[t].pc = "s_check"
    /\ mutex = 0
    /\ BACKEND_PROCESS' = is_backend_running.process
    /\ thread' = Goto(t, IF is_backend_running.running THEN "s_port" ELSE "s_spawn")
    /\ UNCHANGED <<mutex, sidecars, port_file>>
    /\ UNCHANGED <<jobVars, protoVars, pipeVars, synth, call>>

\* start_backend: if let Some(port) = get_backend_port() { return Ok(port); }
Start_Port(t) ==
    /\ thread[t].pc = "s_port"
    /\ thread' = IF get_backend_port # {}
                 THEN Return(t, Ok(unwrap_or(get_backend_port, 0)))
                 ELSE Goto(t, "s_spawn")
    /\ UNCHANGED <<BACKEND_PROCESS, mutex, sidecars, port_file>>
    /\ UNCHANGED <<jobVars, protoVars, pipeVars, synth, call>>

\* start_backend: find_python, the script check and Command::spawn.  Any of
\* them can fail; a process is spawned while the behaviour may spawn one.
Start_Spawn(t) ==
    /\ thread[t].pc = "s_spawn"
    /\ \/ /\ thread' = Return(t, Err("not started"))
          /\ UNCHANGED sidecars
       \/ \E i \in SidecarIds :
            /\ sidecars[i] = "unborn"
            /\ \A k \in SidecarIds : k < i => sidecars[k] # "unborn"
            /\ sidecars' = [sidecars EXCEPT ![i] = "running"]
            /\ thread' = [thread EXCEPT ![t] = [@ EXCEPT !.pc = "s_store", !.child = i]]
    /\ UNCHANGED <<BACKEND_PROCESS, mutex, port_file>>
    /\ UNCHANGED <<jobVars, protoVars, pipeVars, synth, call>>

\* start_backend: *process = Some(child).  The handle that was there is
\* dropped; dropping a Child does not end the process.
Start_Store(t) ==
    /\ thread[t].pc = "s_store"
    /\ mutex = 0
    /\ BACKEND_PROCESS' = {thread[t].child}
    /\ thread' = Goto(t, "s_poll")
    /\ UNCHANGED <<mutex, sidecars, port_file>>
    /\ UNCHANGED <<jobVars, protoVars, pipeVars, synth, call>>

poll_again_one_more(attempts) == attempts <= max_attempts

\* while attempts < max_attempts
poll_again(attempts) == attempts < max_attempts

\* start_backend: one round of the readiness loop, and the end of the loop.
Start_Poll(t) ==
    /\ thread[t].pc = "s_poll"
    /\ IF poll_again(thread[t].attempts)
       THEN LET slept == [thread EXCEPT ![t].slept_ms = @ + poll_interval_ms]
                port == get_backend_port
            IN  thread' =
                  IF port # {} /\ check_backend_health_sync(unwrap_or(port, 0))
                  THEN [slept EXCEPT ![t].pc = "done",
                                     ![t].result = {Ok(unwrap_or(port, 0))}]
                  ELSE [slept EXCEPT ![t].attempts = @ + 1]
       ELSE thread' = Return(t, Err("Backend failed to start within timeout"))
    /\ UNCHANGED <<BACKEND_PROCESS, mutex, sidecars, port_file>>
    /\ UNCHANGED <<jobVars, protoVars, pipeVars, synth, call>>

\* stop_backend: BACKEND_PROCESS.lock(); the guard lives to the end of the
\* `if let Ok(mut process)` block.
Stop_Lock(t) ==
    /\ thread[t].pc = "k_lock"
    /\ mutex = 0
    /\ IF BACKEND_PROCESS = {}
       THEN /\ thread' = Goto(t, "k_port")
            /\ UNCHANGED mutex
       ELSE /\ thread' = [thread EXCEPT ![t] =
                            [@ EXCEPT !.pc = "k_signal",
                                      !.child = CHOOSE c \in BACKEND_PROCESS : TRUE]]
            /\ mutex' = t
    /\ UNCHANGED <<BACKEND_PROCESS, sidecars, port_file>>
    /\ UNCHANGED <<jobVars, protoVars, pipeVars, synth, call>>

\* The two builds of stop_backend.
Platforms == {"windows", "unix"}

\* stop_backend: the signal.  On Windows `taskkill /PID <pid> /T` (without
\* /F) asks the process to close, which it may or may not do; elsewhere
\* child.kill() ends it at once.  The outcome of either is ignored.
Stop_Signal(t) ==
    /\ thread[t].pc = "k_signal"
    /\ \E platform \in Platforms, closes \in BOOLEAN :
        sidecars' = [sidecars EXCEPT ![thread[t].child] =
                        IF platform = "unix" \/ closes THEN "exited" ELSE @]
    /\ thread' = Goto(t, "k_wait")
    /\ UNCHANGED <<BACKEND_PROCESS, mutex, port_file>>
    /\ UNCHANGED <<jobVars, protoVars, pipeVars, synth, call>>

\* stop_backend: child.wait() returns when the process has exited; then
\* *process = None and the lock is released.
Stop_Wait(t) ==
    /\ thread[t].pc = "k_wait"
    /\ sidecars[thread[t].child] = "exited"
    /\ BACKEND_PROCESS' = {}
    /\ mutex' = 0
    /\ thread' = Goto(t, "k_port")
    /\ UNCHANGED <<sidecars, port_file>>
    /\ UNCHANGED <<jobVars, protoVars, pipeVars, synth, call>>

\* stop_backend: if port_file.exists() { let _ = fs::remove_file(port_file); }
Stop_Port(t) ==
    /\ thread[t].pc = "k_port"
    /\ \E removed \in BOOLEAN :
        port_file' = IF removed THEN {} ELSE port_file
    /\ thread' = Return(t, Ok(TRUE))
    /\ UNCHANGED <<BACKEND_PROCESS, mutex, sidecars>>
    /\ UNCHANGED <<jobVars, protoVars, pipeVars, synth, call>>

\* A sidecar binds its port.
Sidecar_Listen(i) ==
    /\ sidecars[i] = "running"
    /\ sidecars' = [sidecars EXCEPT ![i] = "listening"]
    /\ UNCHANGED <<BACKEND_PROCESS, mutex, port_file, thread>>
    /\ UNCHANGED <<jobVars, protoVars, pipeVars, synth, call>>

\* A sidecar writes its port to the port file.
Sidecar_WritePort(i) ==
    /\ Alive(i)
    /\ port_file # {i}
    /\ port_file' = {i}
    /\ UNCHANGED <<BACKEND_PROCESS, mutex, sidecars, thread>>
    /\ UNCHANGED <<jobVars, protoVars, pipeVars, synth, call>>

\* A sidecar exits by itself; the port file stays.
Sidecar_Exit(i) ==
    /\ Alive(i)
    /\ sidecars' = [sidecars EXCEPT ![i] = "exited"]
    /\ UNCHANGED <<BACKEND_PROCESS, mutex, port_file, thread>>
    /\ UNCHANGED <<jobVars, protoVars, pipeVars, synth, call>>

SidecarInit ==
    /\ JobsIdle /\ MachineInit /\ NoChild /\ NoSynth /\ NoSidecar /\ NoCall

SidecarNext ==
    \/ \E t \in Threads :
        \/ Backend_Call(t)
        \/ Running_Check(t)
        \/ Start_Check(t)
        \/ Start_Port(t)
        \/ Start_Spawn(t)
        \/ Start_Store(t)
        \/ Start_Poll(t)
        \/ Stop_Lock(t)
        \/ Stop_Signal(t)
        \/ Stop_Wait(t)
        \/ Stop_Port(t)
    \/ \E i \in SidecarIds :
        \/ Sidecar_Listen(i)
        \/ Sidecar_WritePort(i)
        \/ Sidecar_Exit(i)

SidecarSpec == SidecarInit /\ [][SidecarNext]_vars

-----------------------------------------------------------------------------
(* The project scan: scan_project_structure and the functions it calls.  A   *)
(* text is a sequence of characters; a run of characters none of which the   *)
(* code looks for ("flask", "2.0") is written as one character.              *)

\* Length of a text drawn as input.
MaxText == 5

RECURSIVE TextsUpTo(_, _)
TextsUpTo(S, n) ==
    IF n = 0 THEN {<<>>}
    ELSE LET shorter == TextsUpTo(S, n - 1)
         IN  shorter \cup {Append(q, x) : q \in {r \in shorter : Len(r) = n - 1}, x \in S}

\* The index of the first character of q that is in S, or 0.
find(q, S) ==
    IF \E i \in DOMAIN q : q[i] \in S
    THEN CHOOSE i \in DOMAIN q : q[i] \in S /\ \A k \in 1..(i - 1) : q[k] \notin S
    ELSE 0

\* str::lines()
RECURSIVE lines(_)
lines(content) ==
    IF content = <<>> THEN <<>>
    ELSE LET i == find(content, {"\n"})
         IN  IF i = 0 THEN <<content>>
             ELSE <<SubSeq(content, 1, i - 1)>> \o lines(SubSeq(content, i + 1, Len(content)))

\* str::trim_matches(c): every leading and every trailing c is removed.
trim_char(q, c) ==
    LET kept == {i \in DOMAIN q : q[i] # c}
    IN  IF kept = {} THEN <<>>
        ELSE SubSeq(q, CHOOSE i \in kept : \A k \in kept : i <= k,
                       CHOOSE i \in kept : \A k \in kept : i >= k)

\* str::trim()
trim(q) == trim_char(q, " ")

starts_with(q, c) == Len(q) > 0 /\ q[1] = c

\* line.split(&['=', '<', '>', '!', '['][..]).next().unwrap_or(line)
split_next(line, delimiters) ==
    LET i == find(line, delimiters)
    IN  IF i = 0 THEN line ELSE SubSeq(line, 1, i - 1)

\* line.split_once('='): none, or the parts before and after the first '='.
split_once(line, c) ==
    LET i == find(line, {c})
    IN  IF i = 0 THEN {}
        ELSE {[key |-> SubSeq(line, 1, i - 1), value |-> SubSeq(line, i + 1, Len(line))]}

IsBlankOrComment(line) == trim(line) = <<>> \/ starts_with(trim(line), "#")

\* parse_requirements_file, for the content read (none when the read fails).
parse_requirements_file(content) ==
    IF content = {} THEN <<>>
    ELSE LET kept == SelectSeq(lines(unwrap_or(content, <<>>)),
                               LAMBDA line : ~IsBlankOrComment(line))
             names == [i \in DOMAIN kept |->
                          trim(split_next(kept[i], {"=", "<", ">", "!", "["}))]
         IN  SelectSeq(names, LAMBDA name : name # <<>>)

\* env_map.insert(key, value)
insert(env_map, key, value) ==
    [k \in (DOMAIN env_map) \cup {key} |-> IF k = key THEN value ELSE env_map[k]]

EmptyMap == [k \in {} |-> <<>>]

RECURSIVE parse_env_lines(_, _)
parse_env_lines(ls, env_map) ==
    IF ls = <<>> THEN env_map
    ELSE LET line == trim(Head(ls))
             kv == split_once(line, "=")
         IN  IF line = <<>> \/ starts_with(line, "#") \/ kv = {}
             THEN parse_env_lines(Tail(ls), env_map)
             ELSE LET pair == CHOOSE x \in kv : TRUE
                      key == trim(pair.key)
                      value == trim_char(trim_char(trim(pair.value), "\""), "'")
                  IN  parse_env_lines(Tail(ls), insert(env_map, key, value))

\* parse_env_file, for the content read (none when the read fails).
parse_env_file(content) ==
    IF content = {} THEN EmptyMap
    ELSE parse_env_lines(lines(unwrap_or(content, <<>>)), EmptyMap)

\* The requirements.txt of the specification's example.
ExampleRequirements ==
    <<"flask", "=", "=", "2.0", "\n", "#", " ", "comment", "\n",
      "requests", ">", "=", "2", "\n", "\n">>

RequirementsChars == {"flask", "2.0", " ", "#", "=", "~", "\n"}
RequirementsInputs ==
    {{}} \cup {{text} : text \in TextsUpTo(RequirementsChars, MaxText) \cup {ExampleRequirements}}

EnvChars == {"K", "v", " ", "=", "\"", "'", "#", "\n"}
\* A quoted value that holds quote characters of the other kind: K="'v'"
QuotedEnv == <<"K", "=", "\"", "'", "v", "'", "\"">>
EnvInputs == {{}} \cup {{text} : text \in TextsUpTo(EnvChars, MaxText) \cup {QuotedEnv}}

\* The dependency names of a package.json; a name is a sequence of parts,
\* so that "preact" holds "react" and "vuex" holds "vue".
DependencyNames ==
    {<<"react">>, <<"p", "react">>, <<"vue">>, <<"vue", "x">>,
     <<"@angular", "/core">>, <<"next">>, <<"vite">>}

DevDependencyNames == {<<"p", "react">>, <<"vue">>, <<"next">>, <<"vite">>}

InvalidJson == [valid |-> FALSE, dependencies |-> {}, devDependencies |-> {}]

\* The parsed package.json files: not valid JSON, or the keys of its
\* "dependencies" and "devDependencies" objects (none when not an object).
Manifests ==
    {InvalidJson} \cup
    [valid : {TRUE}, dependencies : SUBSET DependencyNames,
     devDependencies : SUBSET DevDependencyNames]

\* A directory that may hold a package.json and a dist directory.
FrontendDirs == [path : {"."}, package_json : Option(Manifests), has_dist : BOOLEAN]

FrontendInfo(framework, dir, build_command) ==
    [framework |-> framework, path |-> dir.path, has_dist |-> dir.has_dist,
     build_command |-> build_command]

detect_frontend_in_dir(dir) ==
    IF dir.package_json = {} THEN {}
    ELSE LET json == CHOOSE m \in dir.package_json : TRUE
             all_deps == json.dependencies \cup json.devDependencies
         IN  IF ~json.valid THEN {}
             ELSE IF \E d \in all_deps : contains(d, "react")
                  THEN {FrontendInfo("react", dir, "npm run build")}
             ELSE IF \E d \in all_deps : contains(d, "vue")
                  THEN {FrontendInfo("vue", dir, "npm run build")}
             ELSE IF \E d \in all_deps : contains(d, "@angular")
                  THEN {FrontendInfo("angular", dir, "ng build")}
             ELSE IF \E d \in all_deps : d = <<"next">>
                  THEN {FrontendInfo("next", dir, "npm run build")}
             ELSE IF \E d \in all_deps : d = <<"vite">>
                  THEN {FrontendInfo("vite", dir, "npm run build")}
             ELSE {}

\* A project directory: its sub-directories and files, and the files the
\* scan reads.  The frontend sub-directory is none or a directory.
ProjectSubDirs ==
    {[name |-> "pkg", init_file |-> TRUE, has_files |-> TRUE],
     [name |-> "static", init_file |-> FALSE, has_files |-> TRUE],
     [name |-> "venv", init_file |-> FALSE, has_files |-> TRUE]}

ProjectFiles ==
    {[name |-> <<"main", ".py">>, main_guard |-> FALSE],
     [name |-> <<"util", ".py">>, main_guard |-> FALSE],
     [name |-> <<"index", ".js">>, main_guard |-> FALSE]}

ProjectManifests ==
    {InvalidJson,
     [valid |-> TRUE, dependencies |-> {}, devDependencies |-> {}],
     [valid |-> TRUE, dependencies |-> {<<"vue">>}, devDependencies |-> {<<"vite">>}]}

\* The package.json files of the frontend sub-directory.
FrontendManifests ==
    {InvalidJson,
     [valid |-> TRUE, dependencies |-> {<<"react">>}, devDependencies |-> {}]}

Projects ==
    [sub_dirs : SUBSET ProjectSubDirs,
     files : SUBSET ProjectFiles,
     requirements : {{}, {<<"flask", "=", "=", "2.0", "\n">>}},
     env : {{}, {<<"K", "=", "v", "\n">>}},
     package_json : Option(ProjectManifests),
     has_dist : BOOLEAN,
     frontend : Option([path : {"frontend"}, package_json : Option(FrontendManifests),
                        has_dist : {FALSE}])]

\* The sets of names the three directory detectors find; read_dir gives its
\* entries in no fixed order.  Packages below the top level are left out.
detect_python_packages(project) ==
    {d.name : d \in {x \in project.sub_dirs : x.init_file}}

detect_data_directories(project) ==
    {d.name : d \in {x \in project.sub_dirs :
                        /\ x.name # "venv"
                        /\ x.name \in {"static"} \/ ~x.init_file
                        /\ x.has_files}}

detect_entry_candidates(project) ==
    {f.name : f \in {x \in project.files :
                        \/ /\ ends_with(x.name, ".py")
                           /\ x.name \in {<<"main", ".py">>} \/ x.main_guard
                        \/ ends_with(x.name, ".js")}}

detect_frontend_framework(project) ==
    IF project.package_json = {}
    THEN IF project.frontend # {} /\ unwrap_or(project.frontend, InvalidJson).package_json # {}
         THEN detect_frontend_in_dir(CHOOSE d \in project.frontend : TRUE)
         ELSE {}
    ELSE detect_frontend_in_dir([path |-> ".", package_json |-> project.package_json,
                                 has_dist |-> project.has_dist])

ProjectStructure(project) ==
    LET frontend_info == detect_frontend_framework(project)
    IN  [packages |-> detect_python_packages(project),
         data_dirs |-> detect_data_directories(project),
         entry_candidates |-> detect_entry_candidates(project),
         has_requirements |-> project.requirements # {},
         requirements_packages |->
             IF project.requirements # {}
             THEN parse_requirements_file(project.requirements) ELSE <<>>,
         has_env |-> project.env # {},
         env_keys |-> DOMAIN parse_env_file(project.env),
         has_frontend |-> frontend_info # {},
         frontend_framework |-> {f.framework : f \in frontend_info}]

\* The plan of a directory in which nothing is found.
EmptyStructure ==
    [packages |-> {}, data_dirs |-> {}, entry_candidates |-> {},
     has_requirements |-> FALSE, requirements_packages |-> <<>>,
     has_env |-> FALSE, env_keys |-> {},
     has_frontend |-> FALSE, frontend_framework |-> {}]

\* A scan that skips the existence check.
scan_project_structure_unchecked(path) ==
    IF path = {} THEN Ok(EmptyStructure)
    ELSE Ok(ProjectStructure(CHOOSE project \in path : TRUE))

\* scan_project_structure, for what is at project_path (none, or a directory).
scan_project_structure(path) ==
    IF path = {} THEN Err(<<"Project path does not exist: ">>)
    ELSE Ok(ProjectStructure(CHOOSE project \in path : TRUE))

Call_ParseRequirements ==
    /\ call.pc = "called" /\ call.fn = "parse_requirements_file"
    /\ call' = [call EXCEPT !.pc = "returned",
                            !.output = parse_requirements_file(call.input)]
    /\ UNCHANGED <<jobVars, protoVars, pipeVars, synth, sidecarVars>>

Call_ParseEnv ==
    /\ call.pc = "called" /\ call.fn = "parse_env_file"
    /\ call' = [call EXCEPT !.pc = "returned", !.output = parse_env_file(call.input)]
    /\ UNCHANGED <<jobVars, protoVars, pipeVars, synth, sidecarVars>>

Call_DetectFrontend ==
    /\ call.pc = "called" /\ call.fn = "detect_frontend_in_dir"
    /\ call' = [call EXCEPT !.pc = "returned",
                            !.output = detect_frontend_in_dir(call.input)]
    /\ UNCHANGED <<jobVars, protoVars, pipeVars, synth, sidecarVars>>

Call_Scan ==
    /\ call.pc = "called" /\ call.fn = "scan_project_structure"
    /\ call' = [call EXCEPT !.pc = "returned",
                            !.output = scan_project_structure(call.input)]
    /\ UNCHANGED <<jobVars, protoVars, pipeVars, synth, sidecarVars>>

\* The request fields and the entry file of one license injection.
InjectInputs ==
    [original_content : {<<>>, <<"orig_nested">>, <<"import", "main">>},
     demo_mode : Option(BOOLEAN),
     demo_duration_minutes : Option({0, 30}),
     io : InjectIo]

\* The license injection of run_nuitka_compilation with a license key: the
\* defaults of the request, then inject_license_wrapper on the entry file.
Call_InjectLicenseWrapper ==
    /\ call.pc = "called" /\ call.fn = "inject_license_wrapper"
    /\ LET demo_mode == unwrap_or(call.input.demo_mode, FALSE)
           demo_duration == unwrap_or(call.input.demo_duration_minutes, 60)
           project == [p \in {P_nested} |-> call.input.original_content]
       IN  \E r \in inject_license_wrapper(project, P_nested, demo_mode, demo_duration,
                                           call.input.io) :
               call' = [call EXCEPT !.pc = "returned", !.output = r]
    /\ UNCHANGED <<jobVars, protoVars, pipeVars, synth, sidecarVars>>

Called(fn, inputs) ==
    \E input \in inputs :
        call = [pc |-> "called", fn |-> fn, input |-> input, output |-> <<>>]

CallInit ==
    /\ JobsIdle /\ MachineInit /\ NoChild /\ NoSynth /\ NoSidecar
    /\ \/ Called("parse_requirements_file", RequirementsInputs)
       \/ Called("parse_env_file", EnvInputs)
       \/ Called("detect_frontend_in_dir", FrontendDirs)
       \/ Called("scan_project_structure", Option(Projects))
       \/ Called("inject_license_wrapper", InjectInputs)

CallNext ==
    \/ Call_ParseRequirements
    \/ Call_ParseEnv
    \/ Call_DetectFrontend
    \/ Call_Scan
    \/ Call_InjectLicenseWrapper

CallSpec == CallInit /\ [][CallNext]_vars

-----------------------------------------------------------------------------
(* Properties *)

Done(s) == job[s].pc = "done"
Entry(s) == job[s].request.entry_file
Backup(s) == backup_filename(job[s].request.entry_file)
FileAt(f, p) == IF Exists(f, p) THEN <<"file", f[p]>> ELSE <<"absent">>
Failed(s) == \E i \in DOMAIN job[s].log :
                job[s].log[i].type = "result" /\ ~job[s].log[i].success
Succeeded(s) == \E i \in DOMAIN job[s].log :
                job[s].log[i].type = "result" /\ job[s].log[i].success
\* The restore of job s ran, and both of its file operations succeeded.
RestoredCleanly(s) ==
    \E i \in DOMAIN job[s].log :
        /\ job[s].log[i].type = "restore"
        /\ job[s].log[i].copy_ok /\ job[s].log[i].remove_ok

\* C1: when a Nuitka job has returned, on whichever path, the entry file holds
\* the content it held when the job started (stated for the runs in which no
\* file operation failed).
C1_EntryFileUnchanged ==
    \A s \in Slots :
        Done(s) /\ job[s].kind = "nuitka" /\ faults = 0
            => FileAt(fs, Entry(s)) = FileAt(job[s].fs0, Entry(s))

\* C2: on every exit path of a Nuitka job restore_original_file is invoked
\* exactly once, and before the compilation-result event is emitted (stated
\* for the jobs that instrumented the entry file).
C2_RestoreOnceBeforeResult ==
    \A s \in Slots :
        Done(s) /\ job[s].kind = "nuitka" /\ job[s].injected
            => /\ Len(Restores(job[s].log)) = 1
               /\ \A i, k \in DOMAIN job[s].log :
                     job[s].log[i].type = "restore" /\ job[s].log[k].type = "result"
                        => i < k

\* C3: a Nuitka job that fails after inject_license_wrapper succeeded has run
\* restore before it returns; a job that fails at the start (project path,
\* language) has written no file.
C3_ErrorAfterInjectionRestores ==
    \A s \in Slots :
        Done(s) /\ job[s].kind = "nuitka" /\ Failed(s)
            => /\ job[s].injected => Len(Restores(job[s].log)) >= 1
               /\ job[s].last = 0 => fs = job[s].fs0

\* C4: the progress values a job emits never decrease and stay within 0..100.
C4_ProgressMonotonic ==
    \A s \in Slots : job[s].monotonic /\ job[s].in_range

\* C5: every job (Nuitka, Node.js, installer) emits exactly one result event
\* on every exit path, a success with an output path or a failure with an
\* error message and never both, and no progress event after it.
C5_ExactlyOneResult ==
    \A s \in Slots :
        /\ Done(s) => Len(Results(job[s].log)) = 1
        /\ ~Done(s) => Len(Results(job[s].log)) = 0
        /\ ~job[s].after_result
        /\ \A i \in DOMAIN job[s].log :
              job[s].log[i].type = "result"
                 => /\ job[s].log[i].success = job[s].log[i].output_path
                    /\ job[s].log[i].success = ~job[s].log[i].error_message

\* A Nuitka job that streamed a line, finished and reported success.
C5_Witness ==
    \E s \in Slots :
        Done(s) /\ job[s].kind = "nuitka" /\ Succeeded(s) /\ job[s].last = 100

\* C6: when a Nuitka job has terminated, no backup file of its entry file is
\* on disk (stated for the runs in which no file operation failed).
C6_NoBackupAfterJob ==
    \A s \in Slots :
        Done(s) /\ job[s].kind = "nuitka" /\ faults = 0 => ~Exists(fs, Backup(s))

\* C7: a job that starts while a backup of its entry file is on disk and the
\* entry file is instrumented, and that injects, compiles and restores without
\* error, ends with the entry file holding the original content.
C7_NoCompoundingInjection ==
    \A s \in Slots :
        /\ Done(s) /\ job[s].kind = "nuitka" /\ job[s].injected
        /\ Succeeded(s) /\ RestoredCleanly(s) /\ faults = 0
        /\ Exists(job[s].fs0, Backup(s))
        /\ Exists(InitFs, Entry(s))
        /\ job[s].fs0[Entry(s)] # InitFs[Entry(s)]
        => fs[Entry(s)] = InitFs[Entry(s)]

\* The job ended because inject_license_wrapper returned an error: progress 3
\* is the last event before the result and the injection did not succeed.
InjectionFailed(s) ==
    Done(s) /\ job[s].kind = "nuitka" /\ job[s].last = 3 /\ ~job[s].injected

\* C8: when inject_license_wrapper returns an error, the entry file holds its
\* original content and the job leaves no backup on disk that was not there.
C8_FailedInjectionLeavesOriginal ==
    \A s \in Slots :
        InjectionFailed(s)
            => /\ FileAt(fs, Entry(s)) = FileAt(job[s].fs0, Entry(s))
               /\ Exists(fs, Backup(s)) => Exists(job[s].fs0, Backup(s))

\* The step is a call of restore_original_file by job s.
RestoreStep(s) ==
    Len(Restores(job'[s].log)) = Len(Restores(job[s].log)) + 1

LastRestore(s) == LET r == Restores(job'[s].log) IN r[Len(r)]

\* C9: restore_original_file with no backup present changes no file; with a
\* backup present it leaves the entry file equal to the backup's content and
\* the backup deleted (stated for the restores whose removal of the backup
\* succeeds).
C9_RestoreCopiesBackAndDeletes ==
    [][\A s \in Slots :
        RestoreStep(s) =>
            /\ ~Exists(fs, Backup(s)) => fs' = fs
            /\ Exists(fs, Backup(s)) /\ LastRestore(s).remove_ok =>
                /\ FileAt(fs', Entry(s)) = FileAt(fs, Backup(s))
                /\ ~Exists(fs', Backup(s))]_vars

\* C10: the backup filename of a job's entry file is the backup filename of
\* no other entry file of the project.
C10_BackupNamesDistinct ==
    \A s \in Slots :
        job[s].injected
            => \A e \in EntryFiles \ {Entry(s)} :
                  backup_filename(e) # backup_filename(Entry(s))

\* The cache record stored for key k is marked valid and is younger than 24 hours.
FreshValidCache(k) ==
    /\ cache[k] # {}
    /\ LET record == CHOOSE r \in cache[k] : TRUE
       IN  record.valid /\ now - record.last_validated < 24 * 3600

\* C11: in both runtime variants, a run whose embedded license key is "DEMO"
\* or the empty string validates successfully and sends no request.
C11_SentinelKeyBypassesNetwork ==
    run # NoRun /\ run.key \in {"DEMO", ""} => run.validated /\ ~run.network

\* C12: a run that receives a response with status "valid" proceeds and leaves
\* a cache record with valid = TRUE; a run that receives a response with
\* another status terminates and leaves a cache record with valid = FALSE
\* (stated for a licensed key, HTTP 200 responses and runs in which no file
\* operation fails).
C12_ResponseIsCached ==
    run # NoRun /\ run.key = "LK-1" /\ run.env = "ok" =>
        /\ run.reply = "200 valid" =>
              /\ run.validated
              /\ cache[run.key] = {[valid |-> TRUE, last_validated |-> now]}
        /\ run.reply = "200 revoked" =>
              /\ ~run.validated
              /\ cache[run.key] = {[valid |-> FALSE, last_validated |-> now]}

\* C13: a run whose request cannot reach the server proceeds if and only if a
\* cache record for its key exists, is marked valid and is younger than 24
\* hours (stated for a licensed key and runs in which no file operation fails).
C13_OfflineGrace ==
    run # NoRun /\ run.key = "LK-1" /\ run.env = "ok" /\ run.reply = "unreachable" =>
        (run.validated <=> FreshValidCache(run.key))

\* C14: a run that receives a definitive non-valid response terminates, also
\* when a valid cache record younger than 24 hours exists; and while the
\* server's last definitive answer for the key is non-valid, a run that cannot
\* reach the server terminates (stated for a licensed key and runs in which no
\* file operation fails).
C14_RevocationOverridesGrace ==
    run # NoRun /\ run.key = "LK-1" /\ run.env = "ok" =>
        /\ NonValid(run.reply) => ~run.validated
        /\ run.reply = "unreachable" /\ revoked[run.key] => ~run.validated

\* C15: after a demo check the start timestamp T is in the marker; the check
\* terminates the process when now - T exceeds the configured duration and
\* proceeds when now - T is below it (stated for runs in which the marker is
\* read and written without error).
C15_DemoExpiresAfterDuration ==
    /\ run # NoRun
    /\ run.demo_result # "none"
    /\ run.env \notin {"marker_read_fail", "marker_write_fail"}
    /\ demo_file # {Corrupt}
    => /\ demo_file # {}
       /\ LET T == CHOOSE x \in demo_file : TRUE
          IN  /\ now - T > run.demo * 60 => run.demo_result = "expired"
              /\ now - T < run.demo * 60 => run.demo_result = "proceed"

Range(q) == {q[i] : i \in DOMAIN q}
OnStream(q, stream) == SelectSeq(q, LAMBDA x : x.stream = stream)
LinesOf(q) == [i \in DOMAIN q |-> q[i].line]

\* C16: the tool's output is always drained: whatever the child writes to
\* stdout and stderr, and in whatever interleaving, a job that has spawned the
\* tool and has not yet emitted its result can always take a further step
\* (the child writes or exits, or the job reads or collects the exit status),
\* so it reaches child exit and its terminal event.
C16_PipesAlwaysDrained ==
    inv.pc \notin {"idle", "done"} => ENABLED PipeNext

\* C17: when the job has finished, the progress events of a stream the job
\* streams (stderr for Nuitka; stdout and stderr for pkg) carry exactly the
\* lines the child wrote to that stream, one event per line and in the order
\* written, and no such event carries a progress value above 90.
C17_OneEventPerLine ==
    inv.pc = "done" /\ inv.result # {[success |-> FALSE, error_message |-> spawn_error(inv.tool)]} =>
        /\ \A stream \in (IF inv.tool = "nuitka" THEN {"stderr"} ELSE Streams) :
              LinesOf(OnStream(inv.events, stream)) = LinesOf(OnStream(child.written, stream))
        /\ \A i \in DOMAIN inv.events : inv.events[i].progress <= 90

\* C18: a job reports success and runs its post-steps only when the tool
\* exited with status zero; otherwise the result is a failure, no post-step
\* has run, and, when the tool exited with a non-zero status, the error
\* message carries every line the job read from the tool's stderr.
C18_FailureCarriesStderr ==
    inv.pc = "done" =>
        \A r \in inv.result :
            /\ r.success \/ inv.post_steps => child.status = "exited" /\ child.exit_code = 0
            /\ ~r.success => ~inv.post_steps
            /\ ~r.success /\ child.status = "exited" /\ child.exit_code # 0
               /\ r.error_message # wait_error(inv.tool) =>
                  \A i \in DOMAIN inv.events :
                      inv.events[i].stream = "stderr" =>
                          inv.events[i].line \in Range(r.error_message)

\* The dependency-install step of the job in slot s has run to its end:
\* install_requirements has emitted its last event ("installed", progress 10)
\* and the job has emitted nothing since.
InstallDone(s) == job[s].kind = "nuitka" /\ job[s].pc = "n_env" /\ job[s].last = 10

\* C19: the stages of a job follow one another in the stated order; in
\* particular every modification of the entry file precedes the
\* dependency-install step: once that step has run, no step of the job
\* changes the entry file before compilation.
C19_InjectionBeforeInstall ==
    [][\A s \in Slots :
        InstallDone(s) => FileAt(fs', Entry(s)) = FileAt(fs, Entry(s))]_vars

Flagged(args, flag) == {a \in Range(args) : a[1] = flag}

\* C20: in the argument vector built, an explicit package list (an empty one
\* included) yields exactly its own --include-package arguments, so no
\* auto-detected package is added, and likewise an explicit data-directory
\* list for the --include-data-dir arguments of the form dir=dir; the
\* detected lists are used exactly when the request carries no list; and the
\* last argument is the entry file.
C20_ExplicitListsTakePrecedence ==
    synth.pc = "built" =>
        LET request == synth.request
            ctx == synth.ctx
            packages == {a[2] : a \in Flagged(synth.args, "--include-package=")}
            data_dirs == {a[2] : a \in {b \in Flagged(synth.args, "--include-data-dir=") :
                                          b[2] = b[4]}}
        IN  /\ request.include_packages # {} =>
                  packages = Range(unwrap_or(request.include_packages, <<>>))
            /\ request.include_packages = {} => packages = Range(ctx.detected_packages)
            /\ request.include_data_dirs # {} =>
                  data_dirs = Range(unwrap_or(request.include_data_dirs, <<>>))
            /\ request.include_data_dirs = {} => data_dirs = Range(ctx.detected_data_dirs)
            /\ synth.args[Len(synth.args)] = <<request.entry_file>>

\* Explicit empty package list and an explicit data-directory list that lacks
\* a detected directory, with packages and directories detected, every
\* optional argument present and a frontend bundled.
C20_Witness ==
    /\ synth.pc = "built"
    /\ synth.request.include_packages = {<<>>}
    /\ synth.ctx.detected_packages = <<"pkg_a", "pkg_b">>
    /\ synth.request.include_data_dirs = {<<"data">>}
    /\ synth.ctx.detected_data_dirs = <<"data", "static">>
    /\ synth.request.icon_path # {} /\ synth.request.output_dir # {}
    /\ synth.request.bundle_requirements = {TRUE} /\ synth.ctx.requirements_exists
    /\ synth.ctx.frontend_dist_path # {} /\ synth.request.split_frontend = {}
    /\ <<"--include-data-dir=", "frontend/dist", "=", "static">> \in Range(synth.args)

\* C21: at most one sidecar process is alive at a time, and a step that puts
\* a handle into BACKEND_PROCESS never replaces the handle of a sidecar that
\* is alive by the handle of another.
C21_SingleTrackedSidecar ==
    [][/\ Cardinality({i \in SidecarIds : sidecars'[i] \in {"running", "listening"}}) <= 1
       /\ \A c \in BACKEND_PROCESS :
            Alive(c) /\ BACKEND_PROCESS' # {} => BACKEND_PROCESS' = {c}]_vars

\* C22: a round of the readiness loop starts only after fewer than 30
\* rounds, each round sleeps 500 ms, the first round that finds the port file
\* readable and the port accepting a connection returns that port, any other
\* round counts as unsuccessful, and after the 30th unsuccessful round
\* start_backend returns an error.
C22_BoundedReadinessPolling ==
    [][\A t \in Threads :
        thread[t].pc = "s_poll" /\ thread'[t] # thread[t] =>
            LET ready == port_file # {} /\ sidecars[unwrap_or(port_file, 1)] = "listening"
                n == thread[t].attempts
            IN  /\ n <= 30
                /\ n < 30 => thread'[t].slept_ms = thread[t].slept_ms + 500
                /\ n < 30 /\ ready =>
                      /\ thread'[t].pc = "done"
                      /\ thread'[t].result = {Ok(unwrap_or(port_file, 1))}
                /\ n < 30 /\ ~ready =>
                      /\ thread'[t].pc = "s_poll"
                      /\ thread'[t].attempts = n + 1
                /\ n = 30 =>
                      /\ thread'[t].pc = "done"
                      /\ \A r \in thread'[t].result : ~r.ok
                      /\ thread'[t].slept_ms = 30 * 500]_vars

\* A start_backend call has returned the timeout error after 30 rounds.
C22_Witness ==
    \E t \in Threads :
        /\ thread[t].pc = "done" /\ thread[t].op = "start_backend"
        /\ thread[t].attempts = 30
        /\ thread[t].result = {Err("Backend failed to start within timeout")}

\* C23: stop_backend waits for the sidecar only once the sidecar has been
\* terminated (by the graceful signal or, failing that, by force), so that
\* the wait ends; and when stop_backend returns, the handle holds no process
\* and the port file does not exist.
C23_StopTerminatesAndCleans ==
    [][\A t \in Threads :
        /\ thread'[t].pc = "k_wait" => sidecars'[thread'[t].child] = "exited"
        /\ thread[t].pc = "k_port" /\ thread'[t].pc = "done" =>
              BACKEND_PROCESS' = {} /\ port_file' = {}]_vars

Instrumented(f, p) == Exists(f, p) /\ contains(f[p], "LICENSE WRAPPER")

\* C24: a job that injects the license wrapper while the entry file is
\* already instrumented (another job for the same entry file has injected
\* and not yet restored) replaces the backup by the instrumented content it
\* found, so the original content is no longer in the backup.
C24_SecondInjectionOverwritesBackup ==
    [][\A s \in Slots :
        /\ job[s].pc = "f_inject" /\ job'[s].pc = "f_install" /\ job'[s].injected
        /\ Instrumented(fs, Entry(s))
        => /\ fs'[Backup(s)] = fs[Entry(s)]
           /\ Instrumented(fs', Backup(s))]_vars

\* Two jobs for the same entry file have both injected and both ended with a
\* success result after their restore, no file operation has failed, and the
\* entry file is left instrumented.
C24_Witness ==
    /\ \A s \in Slots :
        /\ Done(s) /\ Succeeded(s) /\ job[s].injected
        /\ Entry(s) = SharedEntryFile
        /\ Len(Restores(job[s].log)) = 1
    /\ faults = MaxFaults
    /\ Instrumented(fs, SharedEntryFile)
    /\ FileAt(fs, SharedEntryFile) # FileAt(InitFs, SharedEntryFile)

Returned(fn) == call.pc = "returned" /\ call.fn = fn

\* The characters that begin a version specifier (==, !=, <=, >=, <, >, ~=)
\* or an extras list.
SpecifierChars == {"=", "<", ">", "!", "~", "["}

\* C25: parse_requirements_file returns, in file order, the names of the
\* non-empty non-comment lines, a name being the line cut at its first
\* version-specifier character ('~' of '~=' included) and trimmed, empty
\* names left out; the example file yields exactly flask, requests.
C25_RequirementNames ==
    Returned("parse_requirements_file") /\ call.input # {} =>
        LET text == unwrap_or(call.input, <<>>)
            kept == SelectSeq(lines(text), LAMBDA line : ~IsBlankOrComment(line))
            names == [i \in DOMAIN kept |-> trim(split_next(kept[i], SpecifierChars))]
        IN  /\ call.output = SelectSeq(names, LAMBDA name : name # <<>>)
            /\ text = ExampleRequirements => call.output = <<<<"flask">>, <<"requests">>>>

\* The value with its outer pair of quote characters removed, if it has one.
StripOuterQuotes(value) ==
    IF Len(value) >= 2 /\ value[1] \in {"\"", "'"} /\ value[Len(value)] = value[1]
    THEN SubSeq(value, 2, Len(value) - 1)
    ELSE value

\* C26: parse_env_file maps, for every non-empty non-comment line that
\* contains '=', the trimmed text before the first '=' to the trimmed text
\* after it with its outer pair of quote characters removed; a line without
\* '=' adds nothing and the last line of a key gives its value.
C26_EnvEntries ==
    Returned("parse_env_file") /\ call.input # {} =>
        LET ls == SelectSeq(lines(unwrap_or(call.input, <<>>)),
                            LAMBDA line : ~IsBlankOrComment(line) /\ find(line, {"="}) > 0)
            key(i) == trim(SubSeq(trim(ls[i]), 1, find(trim(ls[i]), {"="}) - 1))
            value(i) == StripOuterQuotes(trim(SubSeq(trim(ls[i]),
                                                     find(trim(ls[i]), {"="}) + 1,
                                                     Len(trim(ls[i])))))
        IN  /\ DOMAIN call.output = {key(i) : i \in DOMAIN ls}
            /\ \A i \in DOMAIN ls :
                  (\A k \in DOMAIN ls : k > i => key(k) # key(i)) =>
                      call.output[key(i)] = value(i)

\* The framework whose marker is among the names: a package of that name,
\* or for angular a package of the @angular scope.
HasMarker(framework, names) ==
    CASE framework = "react" -> <<"react">> \in names
      [] framework = "vue" -> <<"vue">> \in names
      [] framework = "angular" -> \E d \in names : starts_with(d, "@angular")
      [] framework = "next" -> <<"next">> \in names
      [] framework = "vite" -> <<"vite">> \in names

FrameworkOrder == <<"react", "vue", "angular", "next", "vite">>

BuildCommand(framework) == IF framework = "angular" THEN "ng build" ELSE "npm run build"

\* C27: for a readable manifest detect_frontend_in_dir returns the first of
\* react, vue, angular, next, vite whose marker is a member of the dependency
\* and dev-dependency names, with its build command, and none when no marker
\* is a member; has_dist is only copied into the result.
C27_FirstFrameworkByMembership ==
    Returned("detect_frontend_in_dir") /\ call.input.package_json # {} =>
        LET json == CHOOSE m \in call.input.package_json : TRUE
            names == json.dependencies \cup json.devDependencies
            found == {i \in DOMAIN FrameworkOrder : HasMarker(FrameworkOrder[i], names)}
        IN  json.valid =>
              IF found = {} THEN call.output = {}
              ELSE LET first == FrameworkOrder[CHOOSE i \in found : \A k \in found : i <= k]
                   IN  call.output =
                           {FrontendInfo(first, call.input, BuildCommand(first))}

\* C28 as stated: the scan never fails, and for a path that does not exist
\* it returns the empty plan.
C28_ScanNeverFails ==
    Returned("scan_project_structure") =>
        /\ call.output.ok
        /\ call.input = {} => call.output = Ok(EmptyStructure)

\* C28, amended: the scan fails exactly when the project path does not
\* exist, with the error "Project path does not exist"; for a path that
\* exists it returns the plan of the directory.
C28_ScanFailsOnMissingPath ==
    Returned("scan_project_structure") =>
        /\ call.output.ok <=> call.input # {}
        /\ call.input = {} => call.output = Err(<<"Project path does not exist: ">>)
        /\ call.input # {} =>
              LET project == CHOOSE d \in call.input : TRUE
                  plan == call.output.value
              IN  /\ plan.has_requirements <=> project.requirements # {}
                  /\ plan.has_env <=> project.env # {}
                  /\ plan.has_frontend <=> plan.frontend_framework # {}
                  /\ ~plan.has_requirements => plan.requirements_packages = <<>>

C28_Witness ==
    /\ Returned("scan_project_structure")
    /\ call.input = {}
    /\ ~call.output.ok

Count(content, marker) == Cardinality({i \in DOMAIN content : content[i] = marker})

\* C29: an installer injection that succeeds on an entry file already
\* holding the installer marker changes no file, and after every successful
\* injection the entry file holds the installer block exactly once.
C29_InstallerInjectedOnce ==
    [][\A s \in Slots :
        /\ job[s].pc = "f_deps" /\ job'[s].pc = "f_build"
        /\ job[s].request.bundle_requirements
        /\ Exists(fs, job[s].request.requirements_path)
        => /\ contains(fs[Entry(s)], "AUTO-DEPENDENCY INSTALLER") => fs' = fs
           /\ Count(fs'[Entry(s)], "AUTO-DEPENDENCY INSTALLER") = 1]_vars

\* Two jobs on one entry file are both past their installer injection and
\* neither has restored the file: the second injection met the marker.
C29_Witness ==
    /\ \A s \in Slots :
          /\ job[s].pc \in {"f_build", "f_wait"}
          /\ Entry(s) = SharedEntryFile
          /\ job[s].request.bundle_requirements
          /\ job[s].request.requirements_path = RequirementsTxt
    /\ Count(fs[SharedEntryFile], "AUTO-DEPENDENCY INSTALLER") = 1

\* C30: the instrumented entry file is the validation bootstrap, then the
\* demo-timer fragment exactly when demo mode is enabled with a duration
\* above zero, then the original content.
C30_DemoFragmentIffEnabled ==
    Returned("inject_license_wrapper") /\ call.output.ok =>
        LET enabled == /\ call.input.demo_mode = {TRUE}
                       /\ \A d \in call.input.demo_duration_minutes : d > 0
            content == call.output.fs[P_nested]
        IN  /\ contains(content, "DEMO MODE") <=> enabled
            /\ content = <<"LICENSE WRAPPER">>
                         \o (IF enabled THEN <<"DEMO MODE">> ELSE <<>>)
                         \o call.input.original_content

\* Demo mode requested with a duration of zero: no fragment.
C30_Witness ==
    /\ Returned("inject_license_wrapper") /\ call.output.ok
    /\ call.input.demo_mode = {TRUE}
    /\ call.input.demo_duration_minutes = {0}
    /\ call.output.fs[P_nested] = <<"LICENSE WRAPPER">> \o call.input.original_content

\* C31: every line read from the compiler's output while the progress
\* counter is below the ceiling of 90 advances the counter, and no line
\* decreases it.
C31_EveryLineAdvances ==
    [][\A s \in Slots :
        job[s].pc = "n_stream" /\ job'[s].pc = "n_stream" /\ job'[s].lines = job[s].lines + 1
        => /\ job'[s].progress >= job[s].progress
           /\ job[s].progress < 90 => job'[s].progress > job[s].progress]_vars

\* C32: a job goes on from the frontend step to the compiler arguments only
\* if the step was skipped (nothing emitted) or the frontend was built; a
\* frontend build that was executed and failed ends the job with a failure
\* result, whether the directory was given or auto-detected.
C32_FrontendFailureIsTerminal ==
    [][\A s \in Slots :
        job[s].pc = "n_frontend" /\ job'[s].pc = "n_args"
        => \/ job'[s] = [job[s] EXCEPT !.pc = "n_args"]
           \/ job'[s].frontend_dist_path # {}]_vars

\* C33: a run that received a response from the server, an HTTP error
\* status included, proceeds only if the response said "valid": the cached
\* record lets a run proceed only when the request met no server.
C33_GraceOnlyWhenUnreachable ==
    run # NoRun /\ run.network /\ run.reply # "unreachable" /\ run.validated =>
        run.reply = "200 valid"

\* C34: the scan reports the framework of the project root's manifest when
\* that manifest names one, and otherwise the framework of the manifest in
\* the frontend sub-directory, also when the root has a manifest that names
\* no framework (stated for root manifests that parse).
C34_SubdirectoryConsulted ==
    Returned("scan_project_structure") /\ call.input # {} =>
        LET project == CHOOSE d \in call.input : TRUE
            root == detect_frontend_in_dir([path |-> ".",
                                            package_json |-> project.package_json,
                                            has_dist |-> project.has_dist])
            sub == IF project.frontend = {} THEN {}
                   ELSE detect_frontend_in_dir(CHOOSE d \in project.frontend : TRUE)
            found == IF root # {} THEN root ELSE sub
        IN  (\A m \in project.package_json : m.valid) =>
                call.output.value.frontend_framework = {f.framework : f \in found}

\* C35: whenever an injection step of a job (license wrapper, environment
\* defaults, dependency installer) changes the entry file, a backup holding
\* the content the entry file had when the job started is on disk.
C35_ModifiedOnlyWithBackup ==
    [][\A s \in Slots :
        /\ job[s].pc \in {"n_inject", "n_env", "n_deps"}
        /\ FileAt(fs', Entry(s)) # FileAt(fs, Entry(s))
        => /\ Exists(fs', Backup(s))
           /\ fs'[Backup(s)] = job[s].fs0[Entry(s)]]_vars

\* C36: a restore whose copy back onto the entry file failed leaves the
\* backup on disk with its content, so that after every restore the content
\* the backup held is in the entry file or in the backup.
C36_BackupKeptWhenCopyFails ==
    [][\A s \in Slots :
        RestoreStep(s) /\ Exists(fs, Backup(s)) =>
            /\ ~LastRestore(s).copy_ok =>
                  Exists(fs', Backup(s)) /\ fs'[Backup(s)] = fs[Backup(s)]
            /\ \/ FileAt(fs', Entry(s)) = FileAt(fs, Backup(s))
               \/ FileAt(fs', Backup(s)) = FileAt(fs, Backup(s))]_vars

\* C37: a bundled-runtime job leaves the entry file as it was when the job
\* started, and when the job has returned the project directory holds no
\* bootstrap file and no license-wrapper file the job wrote.
C37_TemporaryFilesRemoved ==
    \A s \in Slots :
        job[s].kind = "nodejs" =>
            /\ FileAt(fs, Entry(s)) = FileAt(job[s].fs0, Entry(s))
            /\ job[s].pc = "done" =>
                  /\ \A n \in 0..MaxJobs : ~Exists(fs, BootstrapFile(ToString(n)))
                  /\ FileAt(fs, WrapperFile) # <<"file", <<"validateLicense">>>>

\* C38: a start_backend call that found the backend running does not go on
\* to spawn a process while the tracked child is alive, whether or not the
\* port file is there.
C38_NoSpawnWhileTrackedAlive ==
    [][\A t \in Threads :
        /\ thread[t].pc = "s_port"
        /\ \E c \in BACKEND_PROCESS : Alive(c)
        => thread'[t].pc # "s_spawn"]_vars

\* C39: when start_backend returns the readiness-timeout error, the process
\* the call spawned is neither tracked by the handle nor running.
C39_TimeoutLeavesNoProcess ==
    [][\A t \in Threads :
        /\ thread[t].pc = "s_poll" /\ thread'[t].pc = "done"
        /\ thread'[t].result = {Err("Backend failed to start within timeout")}
        => /\ thread[t].child \notin BACKEND_PROCESS'
           /\ sidecars'[thread[t].child] \notin {"running", "listening"}]_vars

====
